---- MODULE Spec2Model ----
(***************************************************************************)
(* CertIntel: the suggestion pipeline of certificate_processor.py.         *)
(*                                                                         *)
(* A course name is a Python str, modelled as a sequence of characters     *)
(* (one-character strings; the stray OCR character U+00A2 is written       *)
(* "cent").  The string functions the code applies to names (replace,      *)
(* strip, lower, re.sub, sorted) are computed on these sequences.          *)
(***************************************************************************)
EXTENDS Integers, Sequences, FiniteSets, TLC

(***************************************************************************)
(* Characters and their order (Python compares str by code point).         *)
(***************************************************************************)
CodeOrder ==
    << "\n", " ", ".", ":",
       "A", "B", "C", "D", "E", "F", "G", "H", "I", "J", "K", "L", "M",
       "N", "O", "P", "Q", "R", "S", "T", "U", "V", "W", "X", "Y", "Z",
       "[", "]",
       "a", "b", "c", "d", "e", "f", "g", "h", "i", "j", "k", "l", "m",
       "n", "o", "p", "q", "r", "s", "t", "u", "v", "w", "x", "y", "z",
       "cent" >>

Chars == { CodeOrder[i] : i \in 1..Len(CodeOrder) }

Code == [ c \in Chars |-> CHOOSE i \in 1..Len(CodeOrder) : CodeOrder[i] = c ]

IsUpper(c) == Code[c] >= Code["A"] /\ Code[c] <= Code["Z"]

IsLowerCase(c) == Code[c] >= Code["a"] /\ Code[c] <= Code["z"]

IsAlpha(c) == IsUpper(c) \/ IsLowerCase(c)

\* a character of the regex class \w
IsWordChar(c) == IsAlpha(c)

IsSpace(c) == c \in { " ", "\n" }

\* str.lower() on one character
LowerChar(c) == IF IsUpper(c) THEN CodeOrder[Code[c] - Code["A"] + Code["a"]] ELSE c

\* str.upper() on one character
UpperChar(c) == IF IsLowerCase(c) THEN CodeOrder[Code[c] - Code["a"] + Code["A"]] ELSE c

\* str.lower()
Lower(s) == [ i \in 1..Len(s) |-> LowerChar(s[i]) ]

\* a < b for Python str
RECURSIVE StrLess(_, _)
StrLess(a, b) ==
    IF b = <<>> THEN FALSE
    ELSE IF a = <<>> THEN TRUE
    ELSE IF Head(a) # Head(b) THEN Code[Head(a)] < Code[Head(b)]
    ELSE StrLess(Tail(a), Tail(b))

StrLeq(a, b) == a = b \/ StrLess(a, b)

RECURSIVE LStrip(_)
LStrip(s) == IF s # <<>> /\ IsSpace(Head(s)) THEN LStrip(Tail(s)) ELSE s

RECURSIVE RStrip(_)
RStrip(s) ==
    IF s # <<>> /\ IsSpace(s[Len(s)]) THEN RStrip(SubSeq(s, 1, Len(s) - 1)) ELSE s

\* str.strip()
Strip(s) == RStrip(LStrip(s))

StartsWith(s, p) == Len(s) >= Len(p) /\ SubSeq(s, 1, Len(p)) = p

\* str.replace(old, ""): every non-overlapping occurrence, left to right
RECURSIVE Remove(_, _)
Remove(s, old) ==
    IF s = <<>> THEN <<>>
    ELSE IF StartsWith(s, old) THEN Remove(SubSeq(s, Len(old) + 1, Len(s)), old)
    ELSE <<Head(s)>> \o Remove(Tail(s), old)

\* re.sub(r'\s+', ' ', s)
RECURSIVE CollapseSpaces(_)
CollapseSpaces(s) ==
    IF s = <<>> THEN <<>>
    ELSE IF IsSpace(Head(s))
         THEN <<" ">> \o CollapseSpaces(LStrip(s))
         ELSE <<Head(s)>> \o CollapseSpaces(Tail(s))

\* sorted(list(S)) for a set S of str
RECURSIVE SortedList(_)
SortedList(S) ==
    IF S = {} THEN <<>>
    ELSE LET m == CHOOSE x \in S : \A y \in S : StrLeq(x, y)
         IN  <<m>> \o SortedList(S \ {m})

Range(seq) == { seq[i] : i \in 1..Len(seq) }

(***************************************************************************)
(* Values.  A text other than a name (a description, a URL, a message) is  *)
(* a sequence of opaque tokens; Python's None is the one-token text None,  *)
(* a token no str of the model contains.                                   *)
(***************************************************************************)
None == << "None" >>

UNVERIFIED_MARKER == << " ", "[", "U", "N", "V", "E", "R", "I", "F", "I", "E", "D", "]" >>

CENT == << "cent" >>

HTML == << "H", "T", "M", "L" >>

CSS == << "C", "S", "S" >>

JavaScript == << "J", "a", "v", "a", "S", "c", "r", "i", "p", "t" >>

Python == << "P", "y", "t", "h", "o", "n" >>

\* a course that is no key of course_graph
Go == << "G", "o" >>

GraphSuggestion(n, d, q, u) ==
    [ name |-> <<n>>, description |-> <<d>>, search_query |-> <<q>>, url |-> <<"https://", u>> ]

course_graph ==
    [ k \in { HTML, CSS, JavaScript, Python } |->
        IF k = HTML THEN
            [ description |-> << "HTML (HyperText Markup Language) is the standard language for creating webpages." >>,
              suggested_next_courses |->
                << GraphSuggestion("Responsive Web Design Certification by freeCodeCamp",
                                   "Covers the basics of HTML and CSS",
                                   "responsive web design freecodecamp",
                                   "www.freecodecamp.org/learn/responsive-web-design/"),
                   GraphSuggestion("HTML5 and CSS3 Fundamentals by edX",
                                   "Learn how to build modern web pages using HTML5 and CSS3.",
                                   "HTML5 CSS3 fundamentals edX",
                                   "www.edx.org/learn/html5") >> ]
        ELSE IF k = CSS THEN
            [ description |-> << "CSS (Cascading Style Sheets) is used to style and layout web pages." >>,
              suggested_next_courses |->
                << GraphSuggestion("Advanced CSS and Sass by Udemy",
                                   "Master advanced CSS animations, layouts, and Sass preprocessing.",
                                   "advanced css sass udemy",
                                   "www.udemy.com/course/advanced-css-and-sass/"),
                   GraphSuggestion("Tailwind CSS From Scratch by Udemy",
                                   "Learn how to use Tailwind CSS to create modern UIs efficiently.",
                                   "tailwind css udemy",
                                   "www.udemy.com/course/tailwind-from-scratch/") >> ]
        ELSE IF k = JavaScript THEN
            [ description |-> << "JavaScript adds interactivity to websites and is essential for frontend development." >>,
              suggested_next_courses |->
                << GraphSuggestion("JavaScript: Understanding the Weird Parts by Udemy",
                                   "Dive deep into JavaScript's core mechanics",
                                   "javascript understanding weird parts",
                                   "www.udemy.com/course/understand-javascript/"),
                   GraphSuggestion("Modern JavaScript from The Beginning by Udemy",
                                   "Learn JavaScript with projects",
                                   "modern javascript from the beginning",
                                   "www.udemy.com/course/modern-javascript-from-the-beginning/") >> ]
        ELSE
            [ description |-> << "Python is a versatile programming language used in web, AI, and automation." >>,
              suggested_next_courses |->
                << GraphSuggestion("Python for Everybody by University of Michigan (Coursera)",
                                   "An introduction to Python",
                                   "python for everybody coursera",
                                   "www.coursera.org/specializations/python"),
                   GraphSuggestion("Automate the Boring Stuff with Python",
                                   "Practical course on using Python to automate everyday tasks",
                                   "automate the boring stuff python",
                                   "automatetheboringstuff.com/") >> ] ]

\* course_graph.get(name, {}).get("description")
GraphDescription(name) ==
    IF name \in DOMAIN course_graph THEN course_graph[name].description ELSE None

(***************************************************************************)
(* The text of an LLM answer is a sequence of lines; a line is its kind    *)
(* (the marker the parser's regular expressions look for) and the text     *)
(* after the marker.                                                       *)
(***************************************************************************)
Line(k, v) == [ k |-> k, v |-> v ]

LinePrefix(k) ==
    CASE k = "sep"   -> << "---" >>
      [] k = "echo"  -> << "Original Input Course: " >>
      [] k = "ai"    -> << "AI Description: " >>
      [] k = "hdr"   -> << "Suggested Next Courses:" >>
      [] k = "nosug" -> << "No specific suggestions available for this course." >>
      [] k = "bname" -> << "- Name: " >>
      [] k = "name"  -> << "Name: " >>
      [] k = "desc"  -> << "Description: " >>
      [] k = "url"   -> << "URL: " >>
      [] OTHER       -> << >>

\* the characters of a line as the LLM wrote it
Raw(line) == LinePrefix(line.k) \o line.v

NO_AI_DESCRIPTION == << "No AI description available." >>

MinOf(S) == CHOOSE i \in S : \A j \in S : i <= j

\* re.split(r'\n---\n', text): a "---" line splits only between two other lines
RECURSIVE SplitBlocks(_)
SplitBlocks(lines) ==
    LET seps == { i \in 2..(Len(lines) - 1) : lines[i].k = "sep" }
    IN  IF seps = {} THEN << lines >>
        ELSE LET i == MinOf(seps)
             IN  << SubSeq(lines, 1, i - 1) >> \o SplitBlocks(SubSeq(lines, i + 1, Len(lines)))

\* the lines j+1 .. e-1 of a block, each behind its newline
RECURSIVE RawLines(_, _, _)
RawLines(block, j, e) ==
    IF j + 1 >= e THEN << >>
    ELSE << "\n" >> \o Raw(block[j + 1]) \o RawLines(block, j + 1, e)

\* r"AI Description:\s*(.*?)(?:\nSuggested Next Courses:|\Z)", DOTALL
ParseAiDescription(block) ==
    LET ais == { i \in 1..Len(block) : block[i].k = "ai" }
    IN  IF ais = {} THEN None
        ELSE LET j    == MinOf(ais)
                 hs   == { i \in (j + 1)..Len(block) : block[i].k = "hdr" }
                 e    == IF hs = {} THEN Len(block) + 1 ELSE MinOf(hs)
                 desc == Strip(block[j].v \o RawLines(block, j, e))
             IN  IF desc = NO_AI_DESCRIPTION THEN None ELSE desc

\* r"(https?://\S+)": the text up to the first white space
RECURSIVE NonSpacePrefix(_)
NonSpacePrefix(s) ==
    IF s = << >> \/ IsSpace(Head(s)) THEN << >> ELSE << Head(s) >> \o NonSpacePrefix(Tail(s))

IsHttpUrl(v) == v # << >> /\ Head(v) \in { "http://", "https://" } /\ Len(NonSpacePrefix(v)) >= 2

\* one part of re.split(r'\n(?:-\s*)?Name:', blob): [] or [suggestion]
ParseSuggestionChunk(chunk, first) ==
    LET sug_name == IF chunk[1].k = "name" \/ ~first THEN chunk[1].v ELSE Raw(chunk[1])
        descs    == { i \in 1..(Len(chunk) - 1) : chunk[i].k \in { "desc", "ai" } }
        urls     == { i \in 1..Len(chunk) : chunk[i].k = "url" /\ IsHttpUrl(chunk[i].v) }
    IN  IF Len(chunk) >= 2 /\ descs # {} /\ urls # {}
        THEN << [ name        |-> Strip(sug_name),
                  description |-> Strip(chunk[MinOf(descs)].v),
                  url         |-> NonSpacePrefix(chunk[MinOf(urls)].v) ] >>
        ELSE << >>

RECURSIVE ParseSuggestionChunks(_, _)
ParseSuggestionChunks(blob, first) ==
    LET cuts == { i \in 2..Len(blob) : blob[i].k \in { "name", "bname" } }
    IN  IF cuts = {} THEN ParseSuggestionChunk(blob, first)
        ELSE LET i == MinOf(cuts)
             IN  ParseSuggestionChunk(SubSeq(blob, 1, i - 1), first)
                 \o ParseSuggestionChunks(SubSeq(blob, i, Len(blob)), FALSE)

\* r"Suggested Next Courses:\n(.*?)$", DOTALL, and the loop over its parts
ParseSuggestions(block) ==
    LET hs == { i \in 1..(Len(block) - 1) : block[i].k = "hdr" }
    IN  IF hs = {} THEN << >>
        ELSE LET blob == SubSeq(block, MinOf(hs) + 1, Len(block))
             IN  IF Len(blob) = 1 /\ blob[1].k = "nosug" THEN << >>
                 ELSE ParseSuggestionChunks(blob, TRUE)

\* one pass of the loop over main_blocks: [] or [item]
ParseBlock(block) ==
    LET echoes == { i \in 1..(Len(block) - 1) : block[i].k = "echo" }
    IN  IF echoes = {} THEN << >>
        ELSE << [ original_input_course_from_llm |-> Strip(block[MinOf(echoes)].v),
                  ai_description                 |-> ParseAiDescription(block),
                  llm_suggestions                |-> ParseSuggestions(block) ] >>

RECURSIVE ParseBlocks(_)
\* ParseBlocks that stops at the first block without a record
ParseBlocks_StopsAtMalformed(blocks) ==
    IF blocks = << >> \/ ParseBlock(Head(blocks)) = << >> THEN << >>
    ELSE ParseBlock(Head(blocks)) \o ParseBlocks(Tail(blocks))

ParseBlocks(blocks) ==
    IF blocks = << >> THEN << >>
    ELSE ParseBlock(Head(blocks)) \o ParseBlocks(Tail(blocks))

NoSuggestionTexts ==
    { << Line("other", << "Cohere LLM not available." >>) >>,
      << Line("other", << "No known course names provided for suggestions." >>) >> }

parse_llm_detailed_suggestions_response(llm_response_text) ==
    IF llm_response_text = << >> \/ llm_response_text \in NoSuggestionTexts
       \/ (Len(llm_response_text) >= 1 /\ llm_response_text[1].k = "other"
           /\ StartsWith(llm_response_text[1].v, << "Error from LLM:" >>))
    THEN << >>
    ELSE ParseBlocks(SplitBlocks(llm_response_text))

(***************************************************************************)
(* The course-name filter, filter_and_verify_course_text.  Its result is   *)
(* list(set(...)), whose order Python leaves open and every caller         *)
(* discards; it is modelled as the set.                                    *)
(***************************************************************************)
possible_courses ==
    << HTML,
       CSS,
       JavaScript,
       << "R", "e", "a", "c", "t" >>,
       << "A", "s", "t", "r", "o", ".", "j", "s" >>,
       Python,
       << "F", "l", "a", "s", "k" >>,
       << "C", " ", "P", "r", "o", "g", "r", "a", "m", "m", "i", "n", "g" >>,
       << "K", "o", "t", "l", "i", "n" >>,
       << "E", "t", "h", "i", "c", "a", "l", " ", "H", "a", "c", "k", "i", "n", "g" >>,
       << "N", "e", "t", "w", "o", "r", "k", "i", "n", "g" >>,
       << "N", "o", "d", "e", ".", "j", "s" >>,
       << "M", "a", "c", "h", "i", "n", "e", " ", "L", "e", "a", "r", "n", "i", "n", "g" >>,
       << "D", "a", "t", "a", " ", "S", "t", "r", "u", "c", "t", "u", "r", "e", "s" >>,
       << "O", "p", "e", "r", "a", "t", "i", "n", "g", " ", "S", "y", "s", "t", "e", "m", "s" >>,
       << "N", "e", "x", "t", ".", "j", "s" >>,
       << "R", "e", "m", "i", "x" >>,
       << "E", "x", "p", "r", "e", "s", "s", ".", "j", "s" >>,
       << "M", "o", "n", "g", "o", "D", "B" >>,
       << "D", "o", "c", "k", "e", "r" >>,
       << "K", "u", "b", "e", "r", "n", "e", "t", "e", "s" >>,
       << "T", "a", "i", "l", "w", "i", "n", "d", " ", "C", "S", "S" >>,
       << "D", "j", "a", "n", "g", "o" >>,
       << "T", "y", "p", "e", "s", "c", "r", "i", "p", "t" >> >>

course_keywords ==
    { << "c", "o", "u", "r", "s", "e" >>,
      << "c", "e", "r", "t", "i", "f", "i", "c", "a", "t", "i", "o", "n" >>,
      << "d", "e", "v", "e", "l", "o", "p", "e", "r" >>,
      << "p", "r", "o", "g", "r", "a", "m", "m", "i", "n", "g" >>,
      << "b", "o", "o", "t", "c", "a", "m", "p" >>,
      << "i", "n", "t", "e", "r", "n", "s", "h", "i", "p" >>,
      << "a", "w", "a", "r", "d" >>,
      << "d", "e", "g", "r", "e", "e" >>,
      << "d", "i", "p", "l", "o", "m", "a" >>,
      << "t", "r", "a", "i", "n", "i", "n", "g" >> }

\* words of the NLTK English stop word list
stop_words ==
    { << "a" >>,
      << "a", "n" >>,
      << "a", "n", "d" >>,
      << "t", "h", "e" >>,
      << "o", "f" >>,
      << "t", "o" >>,
      << "i", "n" >>,
      << "i", "s" >>,
      << "i", "t" >>,
      << "f", "o", "r" >>,
      << "o", "n" >>,
      << "w", "i", "t", "h" >> }

phrases_to_remove ==
    << << "c", "e", "r", "t", "i", "f", "i", "c", "a", "t", "e", " ", "o", "f", " ", "c", "o", "m", "p", "l", "e", "t", "i", "o", "n" >>,
       << "c", "e", "r", "t", "i", "f", "i", "c", "a", "t", "e", " ", "o", "f", " ", "a", "c", "h", "i", "e", "v", "e", "m", "e", "n", "t" >>,
       << "i", "s", " ", "a", "w", "a", "r", "d", "e", "d", " ", "t", "o" >>,
       << "h", "a", "s", " ", "s", "u", "c", "c", "e", "s", "s", "f", "u", "l", "l", "y", " ", "c", "o", "m", "p", "l", "e", "t", "e", "d" >> >>

\* old in s
Contains(s, old) == \E i \in 0..(Len(s) - Len(old)) : SubSeq(s, i + 1, i + Len(old)) = old

HasNewline(s) == \E i \in 1..Len(s) : s[i] = "\n"

\* str.split(): the maximal runs of characters that are no white space
RECURSIVE SplitWords(_)
SplitWords(s) ==
    LET t == LStrip(s)
    IN  IF t = <<>> THEN <<>>
        ELSE LET n == MinOf({ i \in 1..(Len(t) + 1) : i = Len(t) + 1 \/ IsSpace(t[i]) }) - 1
             IN  << SubSeq(t, 1, n) >> \o SplitWords(SubSeq(t, n + 1, Len(t)))

\* str.split('\n')
RECURSIVE SplitLines(_)
SplitLines(s) ==
    IF ~HasNewline(s) THEN << s >>
    ELSE LET n == MinOf({ i \in 1..Len(s) : s[i] = "\n" })
         IN  << SubSeq(s, 1, n - 1) >> \o SplitLines(SubSeq(s, n + 1, Len(s)))

\* re.sub(r'\s*¢\s*', '', s), the cent character with the white space around it
RECURSIVE RemoveCent(_)
RemoveCent(s) ==
    IF s = <<>> THEN <<>>
    ELSE LET t == LStrip(s)
         IN  IF t # <<>> /\ Head(t) = "cent" THEN RemoveCent(LStrip(Tail(t)))
             ELSE << Head(s) >> \o RemoveCent(Tail(s))

\* str.title()
Title(s) ==
    [ i \in 1..Len(s) |->
        IF ~IsAlpha(s[i]) THEN s[i]
        ELSE IF i > 1 /\ IsAlpha(s[i - 1]) THEN LowerChar(s[i]) ELSE UpperChar(s[i]) ]

\* str.isalnum()
IsAlnum(w) == w # <<>> /\ \A i \in 1..Len(w) : IsAlpha(w[i])

IsWordAt(s, i) == i >= 1 /\ i <= Len(s) /\ IsWordChar(s[i])

\* the regex \b between s[p] and s[p + 1]
Boundary(s, p) == IsWordAt(s, p) # IsWordAt(s, p + 1)

\* re.search(r'\b' + re.escape(w) + r'\b', s)
SearchWord(s, w) ==
    \E i \in 0..(Len(s) - Len(w)) :
        /\ SubSeq(s, i + 1, i + Len(w)) = w
        /\ Boundary(s, i)
        /\ Boundary(s, i + Len(w))

extract_course_names_from_text(text) ==
    IF text = <<>> THEN {}
    ELSE { possible_courses[k] : k \in { j \in 1..Len(possible_courses) :
                                           SearchWord(Lower(text), Lower(possible_courses[j])) } }

RECURSIVE RemovePhrases(_, _)
RemovePhrases(s, k) ==
    IF k > Len(phrases_to_remove) THEN s
    ELSE RemovePhrases(Remove(s, phrases_to_remove[k]), k + 1)

\* is_short_llm_like_input
IsShortInput(text) == Len(SplitWords(text)) <= 7 /\ ~HasNewline(text)

PotentialCourseLines(text) ==
    LET temp_text == RemovePhrases(Lower(text), 1)
        lines     == SplitLines(temp_text)
        stripped  == [ i \in 1..Len(lines) |-> Strip(lines[i]) ]
        kept      == SelectSeq(stripped, LAMBDA l : Len(l) > 4)
    IN  IF IsShortInput(text) THEN Append(kept, Lower(text)) ELSE kept

\* the first known course whose lower-cased name is a substring of the line, or 0
KnownCourseIn(line_text) ==
    LET hits == { k \in 1..Len(possible_courses) :
                    Contains(Lower(line_text), Lower(possible_courses[k])) }
    IN  IF hits = {} THEN 0 ELSE MinOf(hits)

\* is_plausible_new_course without the test for a keyword
IsPlausibleNewCourse_NoKeyword(line_text) ==
    /\ ~ \A i \in 1..Len(SplitWords(line_text)) :
            \/ SplitWords(line_text)[i] \in course_keywords
            \/ SplitWords(line_text)[i] \in stop_words
            \/ ~IsAlnum(SplitWords(line_text)[i])
    /\ Len(SplitWords(line_text)) >= 2
    /\ Len(SplitWords(line_text)) <= 7
    /\ \E i \in 1..Len(SplitWords(line_text)) :
            Lower(SplitWords(line_text)[i]) \notin stop_words /\ Len(SplitWords(line_text)[i]) > 2

\* is_plausible_new_course
IsPlausibleNewCourse(line_text) ==
    LET words_in_line == SplitWords(line_text)
    IN  /\ \E kw \in course_keywords : Contains(line_text, kw)
        /\ ~ \A i \in 1..Len(words_in_line) :
                \/ words_in_line[i] \in course_keywords
                \/ words_in_line[i] \in stop_words
                \/ ~IsAlnum(words_in_line[i])
        /\ Len(words_in_line) >= 2
        /\ Len(words_in_line) <= 7
        /\ \E i \in 1..Len(words_in_line) :
                Lower(words_in_line[i]) \notin stop_words /\ Len(words_in_line[i]) > 2

\* one turn of the loop over potential_course_lines
FilterLine(identified_courses, line_text, text) ==
    IF line_text = <<>> \/ Lower(line_text) \in stop_words THEN identified_courses
    ELSE IF KnownCourseIn(line_text) # 0
         THEN identified_courses \cup { possible_courses[KnownCourseIn(line_text)] }
    ELSE IF IsPlausibleNewCourse(line_text) \/ (IsShortInput(text) /\ line_text = Lower(text))
         THEN IF Title(line_text) \notin identified_courses
              THEN identified_courses \cup { Title(line_text) \o UNVERIFIED_MARKER }
              ELSE identified_courses
    ELSE identified_courses

RECURSIVE FilterLines(_, _, _, _)
FilterLines(identified_courses, lines, k, text) ==
    IF k > Len(lines) THEN identified_courses
    ELSE FilterLines(FilterLine(identified_courses, lines[k], text), lines, k + 1, text)

filter_and_verify_course_text(text_input) ==
    IF text_input = None \/ text_input = <<>> \/ Len(Strip(text_input)) < 3 THEN {}
    ELSE LET text == Strip(RemoveCent(Strip(text_input)))
         IN  IF text = <<>> THEN {}
             ELSE FilterLines(extract_course_names_from_text(text),
                              PotentialCourseLines(text), 1, text)

(***************************************************************************)
(* Extraction from one page image.  What the region detector, the OCR      *)
(* engine and the extraction LLM would answer for a page is part of the    *)
(* page: yolo is "error" (the detector raises) or the detected boxes, each *)
(* with its label and the outcome of OCR on its crop; full is the outcome  *)
(* of OCR on the whole image; llm is the outcome of the chat call.  An     *)
(* outcome is [k |-> "text", v |-> str] or an exception.  The module       *)
(* globals model, TESSERACT_PATH and co are the fields of env.  calls      *)
(* lists the external tools in the order they are invoked.                 *)
(***************************************************************************)
\* str.upper()
Upper(s) == [ i \in 1..Len(s) |-> UpperChar(s[i]) ]

\* text.encode("utf-8", "replace").decode("utf-8"): changes lone surrogates only,
\* and no character of CodeOrder is one
clean_unicode(text) == [ i \in 1..Len(text) |-> IF text[i] \in Chars THEN text[i] ELSE "?" ]

Text(v) == [ k |-> "text", v |-> v ]

Raises(kind) == [ k |-> kind ]

LLM_NONE == << "[", "[", "N", "O", "N", "E", "]", "]" >>

COURSE_NAME_PREFIX == << "c", "o", "u", "r", "s", "e", " ", "n", "a", "m", "e", ":" >>

\* the value and the calls of query_llm_for_course_from_text
query_llm_for_course_from_text(text_content, page, env) ==
    IF ~env.co THEN [ value |-> None, calls |-> <<>> ]
    ELSE IF text_content = <<>> \/ Strip(text_content) = <<>> THEN [ value |-> None, calls |-> <<>> ]
    ELSE IF page.llm.k # "text" THEN [ value |-> None, calls |-> << <<"llm">> >> ]
    ELSE LET extracted_course_name == Strip(page.llm.v)
         IN  IF Upper(extracted_course_name) = LLM_NONE \/ extracted_course_name = <<>>
             THEN [ value |-> None, calls |-> << <<"llm">> >> ]
             ELSE [ value |-> IF StartsWith(Lower(extracted_course_name), COURSE_NAME_PREFIX)
                              THEN LStrip(SubSeq(extracted_course_name, Len(COURSE_NAME_PREFIX) + 1,
                                                 Len(extracted_course_name)))
                              ELSE extracted_course_name,
                    calls |-> << <<"llm">> >> ]

REGION_LABELS == { << "c", "e", "r", "t", "i", "f", "i", "c", "a", "t", "e", "c", "o", "u", "r", "s", "e" >>, << "c", "o", "u", "r", "s", "e" >>, << "t", "i", "t", "l", "e" >> }

PageResult(courses, status, calls) == [ courses |-> courses, status |-> status, calls |-> calls ]

\* the loop over the detected boxes; courses is empty when no box yields candidates
RECURSIVE RegionScan(_, _, _)
\* RegionFound that goes on to the boxes after the one that yields candidates
RegionFound_ScansOn(boxes, k, called, courses_from_region) ==
    [ courses |-> courses_from_region \cup RegionScan(boxes, k + 1, called).courses,
      calls   |-> RegionScan(boxes, k + 1, called).calls ]

\* lines 212-215: the candidates of box k end the scan, or it goes on
RegionFound(boxes, k, called, courses_from_region) ==
    IF courses_from_region # {}
    THEN [ courses |-> courses_from_region, calls |-> called ]
    ELSE RegionScan(boxes, k + 1, called)

\* lines 207-211: OCR of the crop of a box and the filter on its text
CoursesFromRegion(box) ==
    IF box.ocr.k # "text" THEN {}
    ELSE IF clean_unicode(Strip(box.ocr.v)) = <<>> THEN {}
    ELSE filter_and_verify_course_text(clean_unicode(Strip(box.ocr.v)))

RegionScan(boxes, k, calls) ==
    IF k > Len(boxes) THEN [ courses |-> {}, calls |-> calls ]
    ELSE IF Lower(boxes[k].label) \notin REGION_LABELS THEN RegionScan(boxes, k + 1, calls)
    ELSE RegionFound(boxes, k, Append(calls, <<"ocr_region", k>>), CoursesFromRegion(boxes[k]))

RegionScanned(scan) ==
    IF scan.courses # {}
    THEN PageResult(scan.courses, << "SUCCESS_YOLO_OCR" >>, scan.calls)
    ELSE PageResult({}, << "FAILURE_NO_COURSE_IDENTIFIED" >>, scan.calls)

\* RegionStage that runs the detector without looking at TESSERACT_PATH
RegionStage_WithoutOcrEngine(page, env) ==
    IF ~env.model
    THEN PageResult({}, << "FAILURE_NO_COURSE_IDENTIFIED" >>, <<>>)
    ELSE IF page.yolo = "error"
    THEN PageResult({}, << "FAILURE_YOLO_ERROR" >>, << <<"detector">> >>)
    ELSE RegionScanned(RegionScan(page.yolo, 1, << <<"detector">> >>))

\* lines 187-222: the region stage
RegionStage(page, env) ==
    IF ~env.model \/ ~env.TESSERACT_PATH
    THEN PageResult({}, << "FAILURE_NO_COURSE_IDENTIFIED" >>, <<>>)
    ELSE IF page.yolo = "error"
    THEN PageResult({}, << "FAILURE_YOLO_ERROR" >>, << <<"detector">> >>)
    ELSE RegionScanned(RegionScan(page.yolo, 1, << <<"detector">> >>))

\* LlmCourses that reports success whatever the filter leaves of the name
LlmCourses_AlwaysSuccess(courses_from_llm, calls) ==
    PageResult(courses_from_llm, << "SUCCESS_LLM_EXTRACTION_FROM_FULL_OCR" >>, calls)

\* lines 239-246: the filter on the name the LLM extracted
LlmCourses(courses_from_llm, calls) ==
    IF courses_from_llm # {}
    THEN PageResult(courses_from_llm, << "SUCCESS_LLM_EXTRACTION_FROM_FULL_OCR" >>, calls)
    ELSE PageResult({}, << "FAILURE_LLM_OUTPUT_FILTERED_EMPTY" >>, calls)

\* lines 236-249: the answer of query_llm_for_course_from_text
LlmAnswered(llm, calls) ==
    IF llm.value = None \/ llm.value = <<>>
    THEN PageResult({}, << "FAILURE_LLM_NO_COURSE_IN_TEXT" >>, calls \o llm.calls)
    ELSE LlmCourses(filter_and_verify_course_text(llm.value), calls \o llm.calls)

\* FullImageText that hands every text that is not empty to the LLM
FullImageText_NoLengthCheck(full_image_text_cleaned, page, env, calls) ==
    IF full_image_text_cleaned = <<>>
    THEN PageResult({}, << "FAILURE_FULL_IMAGE_OCR_NO_TEXT" >>, calls)
    ELSE LlmAnswered(query_llm_for_course_from_text(full_image_text_cleaned, page, env), calls)

\* lines 230-249: the text of the whole image
FullImageText(full_image_text_cleaned, page, env, calls) ==
    IF full_image_text_cleaned = <<>> \/ Len(full_image_text_cleaned) < 5
    THEN PageResult({}, << "FAILURE_FULL_IMAGE_OCR_NO_TEXT" >>, calls)
    ELSE LlmAnswered(query_llm_for_course_from_text(full_image_text_cleaned, page, env), calls)

\* lines 224-260: full-image OCR and the extraction LLM
FullImageStage(page, env, calls) ==
    IF ~env.TESSERACT_PATH
    THEN PageResult({}, << "FAILURE_TESSERACT_NOT_FOUND" >>, calls)
    ELSE IF page.full.k = "TesseractError"
    THEN PageResult({}, << "FAILURE_FULL_IMAGE_TESSERACT_ERROR: ", "first line of the error" >>,
                    Append(calls, <<"ocr_full">>))
    ELSE IF page.full.k # "text"
    THEN PageResult({}, << "FAILURE_FULL_IMAGE_OCR_UNKNOWN_ERROR: ", "the error" >>,
                    Append(calls, <<"ocr_full">>))
    ELSE FullImageText(clean_unicode(Strip(page.full.v)), page, env, Append(calls, <<"ocr_full">>))

\* RegionStageDone with the fallback run after every region stage
RegionStageDone_AlwaysFallsBack(region, page, env) ==
    FullImageStage(page, env, region.calls)

\* RegionStageDone that returns the page result of a region stage whose detector raised
RegionStageDone_DetectorErrorEndsPage(region, page, env) ==
    IF region.courses # {} \/ region.status = << "FAILURE_YOLO_ERROR" >> THEN region
    ELSE FullImageStage(page, env, region.calls)

\* line 224: the page result of the region stage stands, or the fallback runs
RegionStageDone(region, page, env) ==
    IF region.courses # {} THEN region
    ELSE FullImageStage(page, env, region.calls)

infer_course_text_from_image_object(page, env) ==
    RegionStageDone(RegionStage(page, env), page, env)

(***************************************************************************)
(* process_images_for_ocr.  An item carries, next to its file_id, name and *)
(* content type, what loading its bytes gives: load is the page images     *)
(* ([k |-> "pages", v |-> pages]) or the exception raised.  A page whose   *)
(* mode_ok is FALSE has a mode that must be converted and convert raises.  *)
(***************************************************************************)
NOT_AVAILABLE == "N/A"

PDF == << "application/pdf" >>

ExtractionFailure(file_id, original_filename, reason) ==
    [ file_id |-> file_id, original_filename |-> original_filename, reason |-> reason ]

Loaded(pages) == [ error |-> FALSE, reason |-> << "Unknown image loading/conversion error." >>, pages |-> pages ]

LoadError(reason) == [ error |-> TRUE, reason |-> reason, pages |-> <<>> ]

\* lines 503-509: the handlers of the exceptions of loading
LoadException(load) ==
    IF load.k = "UnidentifiedImageError"
    THEN LoadError(<< "Cannot identify image file. It might be corrupt or not a supported image format." >>)
    ELSE IF load.poppler
    THEN LoadError(<< "Poppler (PDF tool) error: ", "the error" >>)
    ELSE LoadError(<< "Error during image conversion/loading: ", "the error" >>)

\* lines 481-509: the page images of an item, or the reason it has none
LoadItem(image_data_item, env) ==
    IF image_data_item.content_type = PDF
    THEN IF ~env.poppler
         THEN LoadError(<< "Poppler (PDF tool) not found. Cannot process PDF." >>)
         ELSE IF image_data_item.load.k # "pages" THEN LoadException(image_data_item.load)
         ELSE IF image_data_item.load.v = <<>>
         THEN LoadError(<< "PDF converted to zero images (possibly empty or corrupt)." >>)
         ELSE Loaded(image_data_item.load.v)
    ELSE IF Head(image_data_item.content_type) = "image/"
    THEN IF image_data_item.load.k # "pages" THEN LoadException(image_data_item.load)
         ELSE Loaded(<< image_data_item.load.v[1] >>)
    ELSE LoadError(<< "Unsupported content type: " >> \o image_data_item.content_type)

\* lines 531-550: the pages from page i on; invoked lists the pages handed to
\* infer_course_text_from_image_object, each with the calls it made
RECURSIVE PageLoop(_, _, _, _, _)
\* PageInferred without the break of line 548
PageInferred_NoBreak(pages, i, page, seen, env) ==
    PageLoop(pages, i + 1, page.status, seen, env)

\* lines 541-550: the result of page i
PageInferred(pages, i, page, seen, env) ==
    IF page.courses # {}
    THEN [ courses |-> page.courses, any_course_extracted |-> TRUE,
           reason |-> page.status, invoked |-> seen ]
    ELSE PageLoop(pages, i + 1, page.status, seen, env)

\* one call of infer_course_text_from_image_object: the page, what was returned, the calls made
Invocation(i, page) ==
    [ page |-> i, courses |-> page.courses, status |-> page.status, calls |-> page.calls ]

PageInvoke(pages, i, page, invoked, env) ==
    PageInferred(pages, i, page, Append(invoked, Invocation(i, page)), env)

PageLoop(pages, i, best_failure_reason, invoked, env) ==
    IF i > Len(pages)
    THEN [ courses |-> {}, any_course_extracted |-> FALSE,
           reason |-> best_failure_reason, invoked |-> invoked ]
    ELSE IF ~pages[i].mode_ok
    THEN PageLoop(pages, i + 1,
                  << "Image mode conversion failed for page ", ToString(i), ": ", "the error" >>,
                  invoked, env)
    ELSE PageInvoke(pages, i, infer_course_text_from_image_object(pages[i], env), invoked, env)

HasFailure(failed_extraction_images, file_id) ==
    \E k \in 1..Len(failed_extraction_images) : failed_extraction_images[k].file_id = file_id

\* RecordFailure without the tests on the file_id
RecordFailure_Unguarded(failed_extraction_images, image_data_item, reason) ==
    Append(failed_extraction_images,
           [ file_id |-> image_data_item.file_id,
             original_filename |-> image_data_item.original_filename,
             reason |-> reason ])

\* the guarded append of lines 513-516, 522-525 and 554-559
RecordFailure(failed_extraction_images, image_data_item, reason) ==
    IF image_data_item.file_id # NOT_AVAILABLE
       /\ ~HasFailure(failed_extraction_images, image_data_item.file_id)
    THEN Append(failed_extraction_images,
                ExtractionFailure(image_data_item.file_id, image_data_item.original_filename, reason))
    ELSE failed_extraction_images

OcrState(courses, ids, failed, invocations) ==
    [ accumulated_successful_courses |-> courses,
      processed_image_file_ids       |-> ids,
      failed_extraction_images       |-> failed,
      invocations                    |-> invocations ]

\* lines 473-559: one turn of the loop over image_data_list
\* PagesDone with the failure recorded whether or not a page yielded candidates
PagesDone_FailureOnSuccess(st, image_data_item, ids, pages) ==
    OcrState(st.accumulated_successful_courses \cup pages.courses, ids,
             RecordFailure(st.failed_extraction_images, image_data_item, pages.reason),
             Append(st.invocations, pages.invoked))

\* PagesDone with the status of the first page handed over as the reason
PagesDone_FirstPageReason(st, image_data_item, ids, pages) ==
    OcrState(st.accumulated_successful_courses \cup pages.courses, ids,
             IF pages.any_course_extracted THEN st.failed_extraction_images
             ELSE RecordFailure(st.failed_extraction_images, image_data_item,
                                IF pages.invoked = <<>> THEN pages.reason
                                ELSE pages.invoked[1].status),
             Append(st.invocations, pages.invoked))

\* PagesDone that keeps the candidates of the last successful document only
PagesDone_ReplacesCourses(st, image_data_item, ids, pages) ==
    OcrState(IF pages.courses # {} THEN pages.courses ELSE st.accumulated_successful_courses, ids,
             IF pages.any_course_extracted THEN st.failed_extraction_images
             ELSE RecordFailure(st.failed_extraction_images, image_data_item, pages.reason),
             Append(st.invocations, pages.invoked))

PagesDone(st, image_data_item, ids, pages) ==
    OcrState(st.accumulated_successful_courses \cup pages.courses, ids,
             IF pages.any_course_extracted THEN st.failed_extraction_images
             ELSE RecordFailure(st.failed_extraction_images, image_data_item, pages.reason),
             Append(st.invocations, pages.invoked))

\* ItemLoaded with a load error that discards what the items before it gave
ItemLoaded_AbortsBatch(st, image_data_item, ids, loaded, env) ==
    IF loaded.error \/ loaded.pages = <<>>
    THEN OcrState({}, ids, RecordFailure(<<>>, image_data_item, loaded.reason),
                  Append(st.invocations, <<>>))
    ELSE PagesDone(st, image_data_item, ids,
                   PageLoop(loaded.pages, 1, << "FAILURE_NO_COURSE_IDENTIFIED" >>, <<>>, env))

\* lines 511-559: the item after loading
ItemLoaded(st, image_data_item, ids, loaded, env) ==
    IF loaded.error
    THEN OcrState(st.accumulated_successful_courses, ids,
                  RecordFailure(st.failed_extraction_images, image_data_item, loaded.reason),
                  Append(st.invocations, <<>>))
    ELSE IF loaded.pages = <<>>
    THEN OcrState(st.accumulated_successful_courses, ids,
                  RecordFailure(st.failed_extraction_images, image_data_item,
                      << "No image content available after loading (e.g., empty PDF or unreadable image)." >>),
                  Append(st.invocations, <<>>))
    ELSE PagesDone(st, image_data_item, ids,
                   PageLoop(loaded.pages, 1, << "FAILURE_NO_COURSE_IDENTIFIED" >>, <<>>, env))

\* lines 478-479
ProcessedIds(processed_image_file_ids, file_id) ==
    IF file_id # NOT_AVAILABLE /\ file_id \notin Range(processed_image_file_ids)
    THEN Append(processed_image_file_ids, file_id)
    ELSE processed_image_file_ids

ProcessItemStep(st, image_data_item, env) ==
    ItemLoaded(st, image_data_item,
               ProcessedIds(st.processed_image_file_ids, image_data_item.file_id),
               LoadItem(image_data_item, env), env)

\* OcrResult without the ids of the processed files
OcrResult_WithoutIds(courses, failed, ids) ==
    [ successfully_extracted_courses |-> courses,
      failed_extraction_images       |-> failed ]

OcrResult(courses, failed, ids) ==
    [ successfully_extracted_courses |-> courses,
      failed_extraction_images       |-> failed,
      processed_image_file_ids       |-> ids ]

RECURSIVE ProcessItems(_, _, _, _)
ProcessItems(st, image_data_list, k, env) ==
    IF k > Len(image_data_list) THEN st
    ELSE ProcessItems(ProcessItemStep(st, image_data_list[k], env), image_data_list, k + 1, env)

\* the whole of process_images_for_ocr; list(set(processed_image_file_ids)) is the set
process_images_for_ocr(image_data_list, env) ==
    LET st == ProcessItems(OcrState({}, <<>>, <<>>, <<>>), image_data_list, 1, env)
    IN  OcrResult(SortedList(st.accumulated_successful_courses),
                  st.failed_extraction_images,
                  Range(st.processed_image_file_ids))

\* lines 699-705: the candidates the filter makes of the manual names
\* the manual names merged as they were given
ManualCourses_AsGiven(additional_manual_courses) == Range(additional_manual_courses)

ManualCourses(additional_manual_courses) ==
    UNION { filter_and_verify_course_text(Strip(additional_manual_courses[k])) :
              k \in 1..Len(additional_manual_courses) }

(***************************************************************************)
(* Suggestion records and the helpers of the suggestion request.           *)
(***************************************************************************)
SuggestionRecord(name, graph_desc, ai_desc, suggestions, error, by) ==
    [ identified_course_name |-> name,
      description_from_graph |-> graph_desc,
      ai_description         |-> ai_desc,
      llm_suggestions        |-> suggestions,
      llm_error              |-> error,
      processed_by           |-> by ]

\* raw_name.replace(" [UNVERIFIED]", "").replace(cent, "").strip()
CleanName(raw_name) == Strip(Remove(Remove(raw_name, UNVERIFIED_MARKER), CENT))

\* the loop over unique_raw_names: the (cleaned, raw) pairs it keeps, in order
RECURSIVE CleanLoop(_, _)
\* CleanLoop that keeps every raw name whose cleaned name is not empty
CleanLoop_KeepsMarkerVariants(unique_raw_names, kept) ==
    IF unique_raw_names = << >> THEN kept
    ELSE CleanLoop(Tail(unique_raw_names),
                   IF CleanName(Head(unique_raw_names)) # << >>
                   THEN Append(kept, << CleanName(Head(unique_raw_names)), Head(unique_raw_names) >>)
                   ELSE kept)

CleanLoop(unique_raw_names, kept) ==
    IF unique_raw_names = << >> THEN kept
    ELSE LET raw_name     == Head(unique_raw_names)
             cleaned_name == CleanName(raw_name)
             seen         == { kept[i][1] : i \in 1..Len(kept) }
         IN  CleanLoop(Tail(unique_raw_names),
                       IF cleaned_name # << >> /\ cleaned_name \notin seen
                       THEN Append(kept, << cleaned_name, raw_name >>)
                       ELSE kept)

\* sorted(list(set(filter(None, consolidated_raw_names)))) and the loop
CleanedPairs(raw_names) == CleanLoop(SortedList(raw_names \ { << >> }), << >>)

\* cleaned_to_original_map.get(cleaned_name, cleaned_name)
OriginalName(map, cleaned_name) ==
    IF cleaned_name \in DOMAIN map THEN map[cleaned_name] ELSE cleaned_name

\* CacheMap keyed by the cleaned name
CacheMap_ByCleanedName(previous) ==
    [ n \in { CleanName(previous[i].identified_course_name) : i \in 1..Len(previous) } |->
        LET last == CHOOSE i \in 1..Len(previous) :
                        /\ CleanName(previous[i].identified_course_name) = n
                        /\ \A j \in (i + 1)..Len(previous) :
                               CleanName(previous[j].identified_course_name) # n
        IN  previous[last] ]

\* {item["identified_course_name"]: item for item in previous_user_data_list}
CacheMap(previous) ==
    [ n \in { previous[i].identified_course_name : i \in 1..Len(previous) } |->
        LET last == CHOOSE i \in 1..Len(previous) :
                        /\ previous[i].identified_course_name = n
                        /\ \A j \in (i + 1)..Len(previous) : previous[j].identified_course_name # n
        IN  previous[last] ]

CachedRecord(item) == [ item EXCEPT !.processed_by = "Cache" ]

GraphRecord(original_name, cleaned_name) ==
    SuggestionRecord(original_name,
                     course_graph[cleaned_name].description,
                     course_graph[cleaned_name].description,
                     course_graph[cleaned_name].suggested_next_courses,
                     None, "Graph")

\* ResolveName with the static graph consulted before the cache
ResolveName_GraphFirst(acc, cleaned_name, map, cache_map, force) ==
    LET original_name == OriginalName(map, cleaned_name)
    IN  IF cleaned_name \in force
        THEN [ acc EXCEPT !.batch = Append(@, cleaned_name) ]
        ELSE IF cleaned_name \in DOMAIN course_graph
        THEN [ acc EXCEPT !.output = Append(@, GraphRecord(original_name, cleaned_name)) ]
        ELSE IF original_name \in DOMAIN cache_map
        THEN [ acc EXCEPT !.output = Append(@, CachedRecord(cache_map[original_name])) ]
        ELSE [ acc EXCEPT !.batch = Append(@, cleaned_name) ]

\* ResolveName with the cache consulted before the forced refresh
ResolveName_CacheBeforeForce(acc, cleaned_name, map, cache_map, force) ==
    LET original_name == OriginalName(map, cleaned_name)
    IN  IF original_name \in DOMAIN cache_map
        THEN [ acc EXCEPT !.output = Append(@, CachedRecord(cache_map[original_name])) ]
        ELSE IF cleaned_name \in force
        THEN [ acc EXCEPT !.batch = Append(@, cleaned_name) ]
        ELSE IF cleaned_name \in DOMAIN course_graph
        THEN [ acc EXCEPT !.output = Append(@, GraphRecord(original_name, cleaned_name)) ]
        ELSE [ acc EXCEPT !.batch = Append(@, cleaned_name) ]

\* ResolveName with a graph hit sent to the LLM as well
ResolveName_GraphToBatch(acc, cleaned_name, map, cache_map, force) ==
    LET original_name == OriginalName(map, cleaned_name)
    IN  IF cleaned_name \in force
        THEN [ acc EXCEPT !.batch = Append(@, cleaned_name) ]
        ELSE IF original_name \in DOMAIN cache_map
        THEN [ acc EXCEPT !.output = Append(@, CachedRecord(cache_map[original_name])) ]
        ELSE [ acc EXCEPT !.batch = Append(@, cleaned_name) ]

\* ResolveName with a cached record reused only when it carries no llm_error
ResolveName_RetryFailed(acc, cleaned_name, map, cache_map, force) ==
    LET original_name == OriginalName(map, cleaned_name)
    IN  IF cleaned_name \in force
        THEN [ acc EXCEPT !.batch = Append(@, cleaned_name) ]
        ELSE IF original_name \in DOMAIN cache_map /\ cache_map[original_name].llm_error = None
        THEN [ acc EXCEPT !.output = Append(@, CachedRecord(cache_map[original_name])) ]
        ELSE IF cleaned_name \in DOMAIN course_graph
        THEN [ acc EXCEPT !.output = Append(@, GraphRecord(original_name, cleaned_name)) ]
        ELSE [ acc EXCEPT !.batch = Append(@, cleaned_name) ]

\* one pass of the loop over all_known_course_names_cleaned
ResolveName(acc, cleaned_name, map, cache_map, force) ==
    LET original_name == OriginalName(map, cleaned_name)
    IN  IF cleaned_name \in force
        THEN [ acc EXCEPT !.batch = Append(@, cleaned_name) ]
        ELSE IF original_name \in DOMAIN cache_map
        THEN [ acc EXCEPT !.output = Append(@, CachedRecord(cache_map[original_name])) ]
        ELSE IF cleaned_name \in DOMAIN course_graph
        THEN [ acc EXCEPT !.output = Append(@, GraphRecord(original_name, cleaned_name)) ]
        ELSE [ acc EXCEPT !.batch = Append(@, cleaned_name) ]

RECURSIVE ResolveLoop(_, _, _, _, _)
ResolveLoop(acc, names, map, cache_map, force) ==
    IF names = << >> THEN acc
    ELSE ResolveLoop(ResolveName(acc, Head(names), map, cache_map, force),
                     Tail(names), map, cache_map, force)

\* re.sub(r'\s+', ' ', name).strip().lower()
NormalizedKey(name) == Lower(Strip(CollapseSpaces(name)))

\* {key(item): item for item in parsed_items}: a later item replaces an earlier one
ParsedBatchMap(parsed_items) ==
    [ k \in { NormalizedKey(parsed_items[i].original_input_course_from_llm) :
                i \in 1..Len(parsed_items) } |->
        LET last == CHOOSE i \in 1..Len(parsed_items) :
                        /\ NormalizedKey(parsed_items[i].original_input_course_from_llm) = k
                        /\ \A j \in (i + 1)..Len(parsed_items) :
                               NormalizedKey(parsed_items[j].original_input_course_from_llm) # k
        IN  parsed_items[last] ]

\* BatchErrorSummary with the test of parsed_items inverted
BatchErrorSummary_Inverted(response, parsed_items) ==
    IF response.kind = "text" /\ response.text # << >>
    THEN IF parsed_items # << >>
         THEN << "Cohere (batch) response received but no valid items could be parsed." >>
         ELSE None
    ELSE IF response.kind = "error"
    THEN << "Cohere (batch) error: " >> \o response.error
    ELSE << "Unexpected response structure from Cohere LLM (batch) query." >>

\* the summary set from the client's answer
BatchErrorSummary(response, parsed_items) ==
    IF response.kind = "text" /\ response.text # << >>
    THEN IF parsed_items = << >>
         THEN << "Cohere (batch) response received but no valid items could be parsed." >>
         ELSE None
    ELSE IF response.kind = "error"
    THEN << "Cohere (batch) error: " >> \o response.error
    ELSE << "Unexpected response structure from Cohere LLM (batch) query." >>

\* BatchRecord with the parsed items looked up by the name as it is
BatchRecord_ExactKey(cleaned_name, map, parsed_map, summary) ==
    LET original_name == OriginalName(map, cleaned_name)
    IN  IF cleaned_name \in DOMAIN parsed_map
        THEN SuggestionRecord(original_name, GraphDescription(cleaned_name),
                              parsed_map[cleaned_name].ai_description,
                              parsed_map[cleaned_name].llm_suggestions,
                              None, "Cohere (batch)")
        ELSE SuggestionRecord(original_name, GraphDescription(cleaned_name),
                              None, << >>,
                              << "Cohere (batch): No data for '" >> \o cleaned_name \o << "'." >>
                                  \o (IF summary # None
                                      THEN << " Batch error: " >> \o summary ELSE << >>),
                              "Cohere (batch failed)")

\* one pass of the loop over courses_to_query_cohere_batch
BatchRecord(cleaned_name, map, parsed_map, summary) ==
    LET original_name == OriginalName(map, cleaned_name)
        key           == NormalizedKey(cleaned_name)
    IN  IF key \in DOMAIN parsed_map
        THEN SuggestionRecord(original_name, GraphDescription(cleaned_name),
                              parsed_map[key].ai_description,
                              parsed_map[key].llm_suggestions,
                              None, "Cohere (batch)")
        ELSE SuggestionRecord(original_name, GraphDescription(cleaned_name),
                              None, << >>,
                              << "Cohere (batch): No data for '" >> \o cleaned_name \o << "'." >>
                                  \o (IF summary # None
                                      THEN << " Batch error: " >> \o summary ELSE << >>),
                              "Cohere (batch failed)")

\* BatchRecords with a record only for the names the answer holds
BatchRecords_OnlyAnswered(batch, map, parsed_map, summary) ==
    LET answered == SelectSeq(batch, LAMBDA c : NormalizedKey(c) \in DOMAIN parsed_map)
    IN  [ i \in 1..Len(answered) |-> BatchRecord(answered[i], map, parsed_map, summary) ]

BatchRecords(batch, map, parsed_map, summary) ==
    [ i \in 1..Len(batch) |-> BatchRecord(batch[i], map, parsed_map, summary) ]

\* LLMCalls with one call for each name
LLMCalls_PerName(batch) == [ i \in 1..Len(batch) |-> << batch[i] >> ]

\* the calls of query_llm_for_detailed_suggestions for a batch: one, with all of it
LLMCalls(batch) == << batch >>

\* SortKey without lower()
SortKey_CaseSensitive(record) == record.identified_course_name

\* the key of output_data.sort
SortKey(record) == Lower(record.identified_course_name)

\* list.sort is stable: a record goes behind the records whose key is not greater
RECURSIVE InsertSorted(_, _)
InsertSorted(sorted, record) ==
    IF sorted = << >> THEN << record >>
    ELSE IF StrLess(SortKey(record), SortKey(Head(sorted)))
         THEN << record >> \o sorted
         ELSE << Head(sorted) >> \o InsertSorted(Tail(sorted), record)

RECURSIVE SortInto(_, _)
SortInto(sorted, records) ==
    IF records = << >> THEN sorted
    ELSE SortInto(InsertSorted(sorted, Head(records)), Tail(records))

SortOutput(records) == SortInto(<< >>, records)

(***************************************************************************)
(* Bounds and the sets the inputs are drawn from.                          *)
(***************************************************************************)
\* names in one request
MaxNames == 2

\* blocks in one LLM answer
MaxBlocks == 2

HTML_UNVERIFIED == HTML \o UNVERIFIED_MARKER

\* "Go ¢ [UNVERIFIED]", as the names of the local test
GO_CENT_UNVERIFIED == Go \o << " " >> \o CENT \o UNVERIFIED_MARKER

RawNamePool ==
    { HTML, HTML_UNVERIFIED, Go, GO_CENT_UNVERIFIED, Lower(Go), UNVERIFIED_MARKER, << >> }

RequestedNameSets == { S \in SUBSET RawNamePool : Cardinality(S) <= MaxNames }

ForceRefreshLists == SUBSET { HTML, Go }

\* records of an earlier run, as mock_previous_run_data of the local test
MockSuggestion ==
    [ name |-> << "Cached Advanced Course" >>, description |-> << "Deep dive from cache." >>,
      url |-> << "http://", "example.com/cached" >> ]

MockCachedRecord(name) ==
    SuggestionRecord(name, GraphDescription(CleanName(name)),
                     << "This is a cached AI description." >>, << MockSuggestion >>,
                     None, "Cache")

MockFailedRecord(name) ==
    SuggestionRecord(name, None, None, << >>,
                     << "Cohere (batch): No data for '" >> \o name \o << "'." >>,
                     "Cohere (batch failed)")

MockPreviousLists ==
    { << >>,
      << MockCachedRecord(HTML_UNVERIFIED), MockFailedRecord(Go) >>,
      << MockCachedRecord(Lower(Go)), MockCachedRecord(HTML) >> }

\* answers of the detailed-suggestion LLM
FullBlock(echo) ==
    << Line("echo", echo),
       Line("ai", << "An AI description." >>),
       Line("hdr", << >>),
       Line("bname", << "Next course" >>),
       Line("desc", << "About the next course." >>),
       Line("url", << "https://", "example.com/next" >>) >>

NoSuggestionBlock(echo) ==
    << Line("echo", echo), Line("ai", NO_AI_DESCRIPTION), Line("hdr", << >>), Line("nosug", << >>) >>

NoEchoBlock ==
    << Line("ai", << "An AI description." >>), Line("hdr", << >>), Line("nosug", << >>) >>

\* the blocks an answer is made of: one per name of the batch, a block without
\* its echo line, the first name again in another spelling, a course not asked for
BlockPool(batch) ==
    << FullBlock(batch[1]), NoEchoBlock >>
    \o [ i \in 1..(Len(batch) - 1) |-> FullBlock(batch[i + 1]) ]
    \o << NoSuggestionBlock(<< " " >> \o Lower(batch[1])), FullBlock(Python) >>

\* the blocks chosen, in the order of the pool, with "---" lines between them
RECURSIVE JoinBlocks(_, _)
JoinBlocks(pool, chosen) ==
    LET i == MinOf(chosen)
    IN  IF Cardinality(chosen) = 1 THEN pool[i]
        ELSE pool[i] \o << Line("sep", << >>) >> \o JoinBlocks(pool, chosen \ { i })

TextResponse(text) == [ kind |-> "text", text |-> text, error |-> << >> ]

ErrorResponse(error) == [ kind |-> "error", text |-> << >>, error |-> error ]

\* what query_llm_for_detailed_suggestions can return for a batch
LLMResponses(batch) ==
    { ErrorResponse(<< "Cohere LLM not available." >>),
      ErrorResponse(<< "Error from LLM: ", "timeout" >>),
      TextResponse(<< >>) }
    \cup { TextResponse(JoinBlocks(BlockPool(batch), chosen)) :
             chosen \in { S \in SUBSET (1..Len(BlockPool(batch))) :
                            Cardinality(S) >= 1 /\ Cardinality(S) <= MaxBlocks } }

(***************************************************************************)
(* The texts handed to the filter: phrases with a newline, a space or a    *)
(* cent sign between them.                                                 *)
(***************************************************************************)
\* phrases in one text handed to the filter
MaxPhrases == 2

ADVANCED_DATA_ANALYSIS == << "A", "d", "v", "a", "n", "c", "e", "d", " ", "D", "a", "t", "a", " ", "A", "n", "a", "l", "y", "s", "i", "s" >>

A_B == << "a", " ", "b" >>

THE == << "t", "h", "e" >>

REACTION_TIME == << "r", "e", "a", "c", "t", "i", "o", "n", " ", "t", "i", "m", "e" >>

CERTIFICATE_OF_COMPLETION == << "C", "e", "r", "t", "i", "f", "i", "c", "a", "t", "e", " ", "o", "f", " ", "C", "o", "m", "p", "l", "e", "t", "i", "o", "n" >>

WEB_DEVELOPER_BOOTCAMP == << "w", "e", "b", " ", "d", "e", "v", "e", "l", "o", "p", "e", "r", " ", "b", "o", "o", "t", "c", "a", "m", "p" >>

\* two keywords and nothing else
TRAINING_COURSE == << "t", "r", "a", "i", "n", "i", "n", "g", " ", "c", "o", "u", "r", "s", "e" >>

PhrasePool ==
    { A_B, THE, Python, REACTION_TIME, CERTIFICATE_OF_COMPLETION,
      ADVANCED_DATA_ANALYSIS, ADVANCED_DATA_ANALYSIS \o UNVERIFIED_MARKER,
      WEB_DEVELOPER_BOOTCAMP, TRAINING_COURSE, HTML, CSS }

JoinerPool == { << "\n" >>, << " " >>, << " " >> \o CENT \o << " " >> }

\* the texts of at most n phrases
RECURSIVE FilterTexts(_)
FilterTexts(n) ==
    IF n = 1 THEN PhrasePool
    ELSE FilterTexts(n - 1) \cup
         { t \o j \o p : t \in FilterTexts(n - 1), j \in JoinerPool, p \in PhrasePool }

(***************************************************************************)
(* The texts handed to the parser: blocks with "---" lines between them.   *)
(***************************************************************************)
\* blocks in one text handed to the parser
MaxParsedBlocks == 3

EchoOnlyBlock(echo) == << Line("echo", echo) >>

\* its first suggestion has an empty description line
EmptyDescriptionBlock(echo) ==
    << Line("echo", echo),
       Line("ai", << "An AI description." >>),
       Line("hdr", << >>),
       Line("name", << "First course" >>),
       Line("desc", << >>),
       Line("url", << "https://", "example.com/first" >>),
       Line("name", << "Second course" >>),
       Line("desc", << "About the second course." >>),
       Line("url", << "http://", "example.com/second" >>) >>

\* its first suggestion has no web address, its second no description line
PartialSuggestionsBlock(echo) ==
    << Line("echo", echo),
       Line("ai", << "An AI description." >>),
       Line("hdr", << >>),
       Line("bname", << "No address" >>),
       Line("desc", << "Its URL is not a web address." >>),
       Line("url", << "ftp://", "example.com/a" >>),
       Line("bname", << "No description" >>),
       Line("url", << "https://", "example.com/b" >>),
       Line("bname", << "Third course" >>),
       Line("desc", << "About the third course." >>),
       Line("url", << "https://", "example.com/third" >>) >>

ParserBlockPool ==
    { FullBlock(HTML), NoEchoBlock, EchoOnlyBlock(Go), NoSuggestionBlock(Python),
      EmptyDescriptionBlock(CSS), PartialSuggestionsBlock(JavaScript), FullBlock(Go) }

\* the lists of at most n blocks of the pool
RECURSIVE BlockLists(_)
BlockLists(n) ==
    IF n = 0 THEN { << >> }
    ELSE BlockLists(n - 1) \cup
         { Append(l, b) : l \in { m \in BlockLists(n - 1) : Len(m) = n - 1 }, b \in ParserBlockPool }

\* "\n---\n".join(blocks)
RECURSIVE JoinText(_)
JoinText(blocks) ==
    IF blocks = << >> THEN << >>
    ELSE IF Len(blocks) = 1 THEN blocks[1]
    ELSE blocks[1] \o << Line("sep", << >>) >> \o JoinText(Tail(blocks))

(***************************************************************************)
(* The OCR requests of the model: pages, items, environments, manual names *)
(***************************************************************************)
MaxItems == 2

Box(label, ocr) == [ label |-> label, ocr |-> ocr ]

Page(mode_ok, yolo, full, llm) == [ mode_ok |-> mode_ok, yolo |-> yolo, full |-> full, llm |-> llm ]

CERTIFICATE_TEXT == << "c", "e", "r", "t", "i", "f", "i", "c", "a", "t", "e", " ", "o", "f", " ", "c", "o", "m", "p", "l", "e", "t", "i", "o", "n", " ", "i", "n", " ", "d", "a", "t", "a" >>

\* the second of its three boxes is the first with a course label and a course in it
RegionPage ==
    Page(TRUE, << Box(<< "l", "o", "g", "o" >>, Text(Python)),
                  Box(<< "C", "o", "u", "r", "s", "e" >>, Text(<< " ", "P", "y", "t", "h", "o", "n", " ", "P", "r", "o", "g", "r", "a", "m", "m", "i", "n", "g", "\n" >>)),
                  Box(<< "t", "i", "t", "l", "e" >>, Text(<< "R", "e", "a", "c", "t" >>)) >>,
         Text(CERTIFICATE_TEXT), Text(ADVANCED_DATA_ANALYSIS))

\* OCR fails on its first course box, and the second holds a stop word only
RegionFailPage ==
    Page(TRUE, << Box(<< "t", "i", "t", "l", "e" >>, Raises("TesseractError")), Box(<< "c", "o", "u", "r", "s", "e" >>, Text(<< "t", "h", "e" >>)) >>,
         Text(CERTIFICATE_TEXT), Text(<< "C", "S", "S" >>))

LlmPage == Page(TRUE, <<>>, Text(CERTIFICATE_TEXT), Text(<< "C", "o", "u", "r", "s", "e", " ", "N", "a", "m", "e", ":", " ", "A", "d", "v", "a", "n", "c", "e", "d", " ", "D", "a", "t", "a", " ", "A", "n", "a", "l", "y", "s", "i", "s" >>))

\* the text of the whole image has 4 characters when stripped
NoTextPage == Page(TRUE, <<>>, Text(<< " ", "J", "a", "v", "a", "\n" >>), Text(ADVANCED_DATA_ANALYSIS))

NonePage == Page(TRUE, <<>>, Text(CERTIFICATE_TEXT), Text(<< "[", "[", "N", "o", "n", "e", "]", "]" >>))

LlmErrorPage == Page(TRUE, <<>>, Text(CERTIFICATE_TEXT), Raises("Exception"))

\* the text of the whole image has 5 characters when stripped
FilteredPage == Page(TRUE, <<>>, Text(<< "R", "e", "a", "c", "t", "\n" >>), Text(<< " ", "a", "b", " " >>))

YoloErrorPage == Page(TRUE, "error", Raises("TesseractError"), Text(ADVANCED_DATA_ANALYSIS))

ModeFailPage == Page(FALSE, <<>>, Text(CERTIFICATE_TEXT), Text(ADVANCED_DATA_ANALYSIS))

Item(file_id, original_filename, content_type, load) ==
    [ file_id |-> file_id, original_filename |-> original_filename,
      content_type |-> content_type, load |-> load ]

Pages(pages) == [ k |-> "pages", v |-> pages ]

PNG == << "image/", "png" >>

ItemPool ==
    { Item("f1", "three_pages.pdf", PDF, Pages(<< NonePage, RegionPage, LlmPage >>)),
      Item("f1", "corrupt.png", PNG, Raises("UnidentifiedImageError")),
      Item("f2", "no_course.pdf", PDF, Pages(<< NoTextPage, LlmErrorPage >>)),
      Item("f2", "scan.png", PNG, Pages(<< LlmPage >>)),
      Item("f2", "bad_pages.pdf", PDF, Pages(<< YoloErrorPage, ModeFailPage >>)),
      Item(NOT_AVAILABLE, "untracked.png", PNG, Pages(<< FilteredPage >>)),
      Item(NOT_AVAILABLE, "notes.txt", << "text/plain" >>, Pages(<<>>)),
      Item("f3", "empty.pdf", PDF, Pages(<<>>)),
      Item("f3", "broken.pdf", PDF, [ k |-> "Exception", poppler |-> TRUE ]),
      Item("f1", "regions.png", PNG, Pages(<< RegionFailPage >>)) }

\* the lists of at most n different items of the pool
RECURSIVE ItemLists(_)
ItemLists(n) ==
    IF n = 0 THEN { <<>> }
    ELSE ItemLists(n - 1) \cup
         UNION { { Append(l, i) : i \in ItemPool \ Range(l) } :
                   l \in { m \in ItemLists(n - 1) : Len(m) = n - 1 } }

Env(model, tesseract, co, poppler) ==
    [ model |-> model, TESSERACT_PATH |-> tesseract, co |-> co, poppler |-> poppler ]

\* everything available, or one of the four resources missing
EnvPool ==
    { Env(TRUE, TRUE, TRUE, TRUE), Env(FALSE, TRUE, TRUE, TRUE), Env(TRUE, FALSE, TRUE, TRUE),
      Env(TRUE, TRUE, FALSE, TRUE), Env(TRUE, TRUE, TRUE, FALSE) }

ManualCoursePool ==
    { None, <<>>, << ADVANCED_DATA_ANALYSIS >>, << << " ", "P", "y", "t", "h", "o", "n", " " >>, << "a", "b" >> >> }

\* the manual names of a request: they vary where every resource is available
ManualCoursesUnder(environment) ==
    IF environment = Env(TRUE, TRUE, TRUE, TRUE) THEN ManualCoursePool ELSE { None }

(***************************************************************************)
(* State.                                                                  *)
(***************************************************************************)
VARIABLES
    pc,                             \* "idle", or "query_llm": the request waits for the LLM
    round,                          \* "none", "first": a request, "repeat": it was sent again
    known_course_names,             \* the request: the raw names asked for
    previous_user_data_list,        \* the request: records of the previous run
    force_refresh_for_courses,      \* the request: names to refresh
    cleaned_names_for_llm_query,
    cleaned_to_original_map,
    output_data,
    courses_to_query_cohere_batch,
    llm_queries,                    \* the batches handed to the LLM client in this request
    cohere_batch_response,
    result,                         \* what the last request returned
    last_request                    \* the request before it: its names and its records

\* an OCR request
VARIABLES
    ocr_pc,                         \* "idle", "items": in the loop over the items, "done"
    image_data_list,
    additional_manual_courses,
    env,                            \* the globals model, TESSERACT_PATH and co, and the PDF tool
    item_index,                     \* the next item of image_data_list
    ocr_state,                      \* the locals of process_images_for_ocr
    ocr_results                     \* what the OCR request returned

\* a call of parse_llm_detailed_suggestions_response
VARIABLES
    llm_response_text,              \* the text handed to the parser
    parsed_results                  \* what the parser returned

parser_vars == << llm_response_text, parsed_results >>

\* a call of filter_and_verify_course_text
VARIABLES
    text_input,                     \* the text handed to the filter
    identified_courses,             \* what the filter returned
    refiltered_from                 \* the result that text_input was taken from, if it was

filter_vars == << text_input, identified_courses, refiltered_from >>

\* the Flask service: the collections of the database and the last call of an endpoint
VARIABLES
    user_course_processing_collection,  \* the stored results, in the order of processedAt
    manual_course_names_collection,     \* (userId, fileId) to the course name saved for it
    endpoint_request,                   \* the JSON body of the last call
    latest_previous_user_data_list,     \* the records the last call used as its cache
    endpoint_llm_batch,                 \* the names the last call handed to the LLM client
    processing_result_dict,             \* the answer of the last call in suggestions mode
    ocr_phase_raw_results,              \* what the processor returned to the last call in OCR mode
    ocr_mode_response,                  \* the answer of the last call in OCR mode
    requests_served,                    \* the calls so far
    failed_lookups                      \* (userId, name) of the LLM lookups that have failed

endpoint_vars ==
    << user_course_processing_collection, manual_course_names_collection, endpoint_request,
       latest_previous_user_data_list, endpoint_llm_batch, processing_result_dict,
       ocr_phase_raw_results, ocr_mode_response, requests_served, failed_lookups >>

\* the page of the front end: the state of the component, and what it waits for
VARIABLES
    phase,                              \* 'initial', 'manualNaming', 'processingSuggestions', 'results'
    isLoading,
    generalManualCoursesInput,          \* the courses typed into the text area
    ocrSuccessfullyExtracted,
    ocrFailedImages,
    manualNamesForFailedImages,         \* the names typed for the failed images
    finalResult,
    fetches,                            \* the requests the server has not answered yet
    timers,                             \* the handlers scheduled with setTimeout
    last_answer,                        \* the answer of the server that came last
    ocr_succeeded                       \* an OCR request of the page has been answered well

page_vars ==
    << phase, isLoading, generalManualCoursesInput, ocrSuccessfullyExtracted, ocrFailedImages,
       manualNamesForFailedImages, finalResult, fetches, timers, last_answer, ocr_succeeded >>

ocr_vars ==
    << ocr_pc, image_data_list, additional_manual_courses, env, item_index, ocr_state, ocr_results >>

suggestion_vars ==
    << pc, round, known_course_names, previous_user_data_list, force_refresh_for_courses,
       cleaned_names_for_llm_query, cleaned_to_original_map, output_data,
       courses_to_query_cohere_batch, llm_queries, cohere_batch_response, result, last_request >>

vars == << suggestion_vars, ocr_vars, parser_vars, filter_vars, endpoint_vars, page_vars >>

NoResponse == [ kind |-> "none", text |-> << >>, error |-> << >> ]

\* an answer of the server to the page: of which mode, well or with an error, and
\* the courses and the failed images an OCR answer reports
Answer(mode, ok, courses, failed) ==
    [ mode |-> mode, ok |-> ok, successfully_extracted_courses |-> courses,
      failed_extraction_images |-> failed ]

NoAnswer == Answer("", FALSE, {}, {})

\* the JSON body of a call, and the endpoint or mode it is for
Request(user_id, mode, known, file_id, course_name) ==
    [ userId |-> user_id, mode |-> mode, knownCourseNames |-> known,
      fileId |-> file_id, courseName |-> course_name ]

NoRequest == Request("", "", {}, "", << >>)

Result(data, summary) == [ user_processed_data |-> data, llm_error_summary |-> summary ]

Init ==
    /\ pc = "idle"
    /\ round = "none"
    /\ known_course_names = {}
    /\ previous_user_data_list = << >>
    /\ force_refresh_for_courses = {}
    /\ cleaned_names_for_llm_query = << >>
    /\ cleaned_to_original_map = << >>
    /\ output_data = << >>
    /\ courses_to_query_cohere_batch = << >>
    /\ llm_queries = << >>
    /\ cohere_batch_response = NoResponse
    /\ result = Result(<< >>, None)
    /\ last_request = [ known |-> {}, data |-> << >> ]
    /\ ocr_pc = "idle"
    /\ image_data_list = << >>
    /\ additional_manual_courses = << >>
    /\ env = Env(TRUE, TRUE, TRUE, TRUE)
    /\ item_index = 1
    /\ ocr_state = OcrState({}, << >>, << >>, << >>)
    /\ ocr_results = OcrResult(<< >>, << >>, {})
    /\ llm_response_text = << >>
    /\ parsed_results = << >>
    /\ text_input = << >>
    /\ identified_courses = {}
    /\ refiltered_from = {}
    /\ user_course_processing_collection = << >>
    /\ manual_course_names_collection = {}
    /\ endpoint_request = NoRequest
    /\ latest_previous_user_data_list = << >>
    /\ endpoint_llm_batch = << >>
    /\ processing_result_dict = Result(<< >>, None)
    /\ ocr_phase_raw_results = OcrResult(<< >>, << >>, {})
    /\ ocr_mode_response = OcrResult(<< >>, << >>, {})
    /\ requests_served = 0
    /\ failed_lookups = {}
    /\ phase = "initial"
    /\ isLoading = FALSE
    /\ generalManualCoursesInput = {}
    /\ ocrSuccessfullyExtracted = {}
    /\ ocrFailedImages = {}
    /\ manualNamesForFailedImages = {}
    /\ finalResult = None
    /\ fetches = << >>
    /\ timers = << >>
    /\ last_answer = NoAnswer
    /\ ocr_succeeded = FALSE

(***************************************************************************)
(* extract_and_recommend_courses_from_image_data(mode='suggestions_only')  *)
(* up to the call of the LLM client, or to its return when no name needs   *)
(* the LLM.                                                                *)
(***************************************************************************)
GenerateSuggestions(raw_names, previous, force) ==
    LET pairs   == CleanedPairs(raw_names)
        names   == [ i \in 1..Len(pairs) |-> pairs[i][1] ]
        map     == [ c \in Range(names) |->
                       pairs[CHOOSE i \in 1..Len(pairs) : pairs[i][1] = c][2] ]
        acc     == ResolveLoop([ output |-> << >>, batch |-> << >> ],
                               names, map, CacheMap(previous), force)
    IN  /\ pc = "idle"
        /\ ocr_pc = "idle"
        /\ UNCHANGED << ocr_vars, parser_vars, filter_vars, endpoint_vars, page_vars >>
        /\ last_request' = [ known |-> known_course_names, data |-> result.user_processed_data ]
        /\ known_course_names' = raw_names
        /\ previous_user_data_list' = previous
        /\ force_refresh_for_courses' = force
        /\ cleaned_names_for_llm_query' = names
        /\ cleaned_to_original_map' = map
        /\ cohere_batch_response' = NoResponse
        /\ IF names = << >>
           THEN /\ output_data' = << >>
                /\ courses_to_query_cohere_batch' = << >>
                /\ llm_queries' = << >>
                /\ result' = Result(<< >>,
                       << "No course names provided for suggestion generation (after cleaning)." >>)
                /\ pc' = "idle"
           ELSE IF acc.batch = << >>
           THEN /\ output_data' = SortOutput(acc.output)
                /\ courses_to_query_cohere_batch' = << >>
                /\ llm_queries' = << >>
                /\ result' = Result(SortOutput(acc.output), None)
                /\ pc' = "idle"
           ELSE /\ output_data' = acc.output
                /\ courses_to_query_cohere_batch' = acc.batch
                /\ llm_queries' = LLMCalls(acc.batch)
                /\ result' = result
                /\ pc' = "query_llm"

\* a request of a caller that holds the records of some earlier run
SuggestionsRequest(raw_names, previous, force) ==
    /\ round = "none"
    /\ round' = "first"
    /\ GenerateSuggestions(raw_names, previous, force)

\* the caller sends its request again, with the records it got as previous records
RepeatRequest(force) ==
    /\ round = "first"
    /\ round' = "repeat"
    /\ GenerateSuggestions(known_course_names, result.user_processed_data, force)

(***************************************************************************)
(* The LLM client returns: generate_suggestions_from_known_courses from    *)
(* the answer to its return.                                               *)
(***************************************************************************)
LLMReturns(response) ==
    LET parsed_items == IF response.kind = "text" /\ response.text # << >>
                        THEN parse_llm_detailed_suggestions_response(response.text)
                        ELSE << >>
        summary      == BatchErrorSummary(response, parsed_items)
        records      == BatchRecords(courses_to_query_cohere_batch, cleaned_to_original_map,
                                     ParsedBatchMap(parsed_items), summary)
    IN  /\ pc = "query_llm"
        /\ cohere_batch_response' = response
        /\ output_data' = SortOutput(output_data \o records)
        /\ result' = Result(SortOutput(output_data \o records), summary)
        /\ pc' = "idle"
        /\ UNCHANGED << round, known_course_names, previous_user_data_list,
                        force_refresh_for_courses, cleaned_names_for_llm_query,
                        cleaned_to_original_map, courses_to_query_cohere_batch,
                        llm_queries, last_request >>
        /\ UNCHANGED << ocr_vars, parser_vars, filter_vars, endpoint_vars, page_vars >>

Next ==
    \/ /\ round = "none"
       /\ \E raw_names \in RequestedNameSets, previous \in MockPreviousLists,
             force \in ForceRefreshLists :
               SuggestionsRequest(raw_names, previous, force)
    \/ \E force \in ForceRefreshLists : RepeatRequest(force)
    \/ /\ pc = "query_llm"
       /\ \E response \in LLMResponses(courses_to_query_cohere_batch) :
            LLMReturns(response)

Spec == Init /\ [][Next]_vars

(***************************************************************************)
(* extract_and_recommend_courses_from_image_data(mode='ocr_only').          *)
(***************************************************************************)
\* lines 684-696: the request, up to the loop of process_images_for_ocr
OcrRequest(images, manual, environment) ==
    LET current_additional_manual_courses == IF manual = None THEN <<>> ELSE manual
    IN  /\ ocr_pc = "idle"
        /\ pc = "idle"
        /\ round = "none"
        /\ image_data_list' = images
        /\ additional_manual_courses' = current_additional_manual_courses
        /\ env' = environment
        /\ item_index' = 1
        /\ ocr_state' = OcrState({}, <<>>, <<>>, <<>>)
        /\ IF images = <<>> /\ current_additional_manual_courses = <<>>
           THEN /\ ocr_results' = OcrResult(<<>>, <<>>, {})
                /\ ocr_pc' = "done"
           ELSE /\ ocr_results' = ocr_results
                /\ ocr_pc' = "items"
        /\ UNCHANGED << suggestion_vars, parser_vars, filter_vars, endpoint_vars, page_vars >>

\* lines 473-559: the next item of image_data_list
ProcessItem ==
    /\ ocr_pc = "items"
    /\ item_index <= Len(image_data_list)
    /\ ocr_state' = ProcessItemStep(ocr_state, image_data_list[item_index], env)
    /\ item_index' = item_index + 1
    /\ UNCHANGED << ocr_pc, image_data_list, additional_manual_courses, env, ocr_results >>
    /\ UNCHANGED << suggestion_vars, parser_vars, filter_vars, endpoint_vars, page_vars >>

\* lines 561-570 and 698-709: the sets are returned, the manual names merged in
OcrReturns ==
    /\ ocr_pc = "items"
    /\ item_index > Len(image_data_list)
    /\ ocr_results' =
         OcrResult(SortedList(ocr_state.accumulated_successful_courses
                              \cup ManualCourses(additional_manual_courses)),
                   ocr_state.failed_extraction_images,
                   Range(ocr_state.processed_image_file_ids))
    /\ ocr_pc' = "done"
    /\ UNCHANGED << image_data_list, additional_manual_courses, env, item_index, ocr_state >>
    /\ UNCHANGED << suggestion_vars, parser_vars, filter_vars, endpoint_vars, page_vars >>

NextOcr ==
    \/ /\ ocr_pc = "idle"
       /\ \E images \in ItemLists(MaxItems), environment \in EnvPool :
            \E manual \in ManualCoursesUnder(environment) : OcrRequest(images, manual, environment)
    \/ ProcessItem
    \/ OcrReturns

SpecOcr == Init /\ [][NextOcr]_vars

\* the entry point called in either mode: a suggestions request of a caller with or
\* without earlier records and the answer of the LLM client to it, or an OCR request
NextEntryPoint ==
    \/ /\ round = "none"
       /\ \E raw_names \in RequestedNameSets, previous \in MockPreviousLists :
            SuggestionsRequest(raw_names, previous, {})
    \/ /\ pc = "query_llm"
       /\ \E response \in LLMResponses(courses_to_query_cohere_batch) :
            LLMReturns(response)
    \/ NextOcr

SpecEntryPoint == Init /\ [][NextEntryPoint]_vars

(***************************************************************************)
(* parse_llm_detailed_suggestions_response called on a text.               *)
(***************************************************************************)
ParseResponse(blocks) ==
    /\ pc = "idle" /\ round = "none" /\ ocr_pc = "idle"
    /\ llm_response_text = << >>
    /\ llm_response_text' = JoinText(blocks)
    /\ parsed_results' = parse_llm_detailed_suggestions_response(JoinText(blocks))
    /\ UNCHANGED << suggestion_vars, ocr_vars, filter_vars, endpoint_vars, page_vars >>

NextParser ==
    /\ llm_response_text = << >>
    /\ \E blocks \in BlockLists(MaxParsedBlocks) : ParseResponse(blocks)

SpecParser == Init /\ [][NextParser]_vars

(***************************************************************************)
(* filter_and_verify_course_text called on a text, and called again on a   *)
(* candidate it returned, as lines 698-706 do with a name the caller sends  *)
(* back as a manual course.                                                *)
(***************************************************************************)
FilterText(text) ==
    /\ pc = "idle" /\ round = "none" /\ ocr_pc = "idle"
    /\ text_input = << >>
    /\ text_input' = text
    /\ identified_courses' = filter_and_verify_course_text(text)
    /\ refiltered_from' = {}
    /\ UNCHANGED << suggestion_vars, ocr_vars, parser_vars, endpoint_vars, page_vars >>

FilterCandidate ==
    /\ text_input # << >>
    /\ refiltered_from = {}
    /\ \E candidate \in identified_courses :
         /\ text_input' = candidate
         /\ identified_courses' = filter_and_verify_course_text(Strip(candidate))
         /\ refiltered_from' = identified_courses
    /\ UNCHANGED << suggestion_vars, ocr_vars, parser_vars, endpoint_vars, page_vars >>

NextFilter ==
    \/ /\ text_input = << >>
       /\ \E text \in FilterTexts(MaxPhrases) : FilterText(text)
    \/ FilterCandidate

SpecFilter == Init /\ [][NextFilter]_vars

(***************************************************************************)
(* app.py, /api/process-certificates in mode 'suggestions_only'.  The      *)
(* handler runs from the request to its answer in one step; the database   *)
(* answers every call.  A stored result keeps the fields the handler reads *)
(* back; processedAt is the position in the collection.                    *)
(***************************************************************************)
\* calls of the endpoints
MaxRequests == 3

Users == { "u1", "u2" }

\* knownCourseNames of a request
KnownCourseNameLists == { {}, { Go }, { HTML }, { Go, HTML }, { GO_CENT_UNVERIFIED } }

\* what query_llm_for_detailed_suggestions returns to the service: an error, a block
\* with a suggestion for the first name of the batch, a block without suggestions
ServiceLLMResponses(batch) ==
    { ErrorResponse(<< "Cohere LLM not available." >>),
      TextResponse(FullBlock(batch[1])),
      TextResponse(NoSuggestionBlock(batch[1])) }

StoredResult(user_id, data, summary) ==
    [ userId |-> user_id, user_processed_data |-> data,
      llm_error_summary_at_processing |-> summary ]

\* find_one({"userId": user_id}, sort=[("processedAt", ASCENDING)])
LatestPreviousData_Oldest(collection, user_id) ==
    LET docs == SelectSeq(collection, LAMBDA doc : doc.userId = user_id)
    IN  IF docs = << >> THEN << >> ELSE docs[1].user_processed_data

\* find_one({"userId": user_id}, sort=[("processedAt", DESCENDING)])
LatestPreviousData(collection, user_id) ==
    LET docs == SelectSeq(collection, LAMBDA doc : doc.userId = user_id)
    IN  IF docs = << >> THEN << >> ELSE docs[Len(docs)].user_processed_data

\* the names the processor hands to the LLM client
SuggestionsBatch(raw_names, previous) ==
    LET pairs == CleanedPairs(raw_names)
        names == [ i \in 1..Len(pairs) |-> pairs[i][1] ]
        map   == [ c \in Range(names) |->
                     pairs[CHOOSE i \in 1..Len(pairs) : pairs[i][1] = c][2] ]
    IN  ResolveLoop([ output |-> << >>, batch |-> << >> ],
                    names, map, CacheMap(previous), {}).batch

\* extract_and_recommend_courses_from_image_data(mode='suggestions_only') from its
\* call to its return, with the answer the LLM client gives
SuggestionsOnly(raw_names, previous, response) ==
    LET pairs        == CleanedPairs(raw_names)
        names        == [ i \in 1..Len(pairs) |-> pairs[i][1] ]
        map          == [ c \in Range(names) |->
                            pairs[CHOOSE i \in 1..Len(pairs) : pairs[i][1] = c][2] ]
        acc          == ResolveLoop([ output |-> << >>, batch |-> << >> ],
                                    names, map, CacheMap(previous), {})
        parsed_items == IF response.kind = "text" /\ response.text # << >>
                        THEN parse_llm_detailed_suggestions_response(response.text)
                        ELSE << >>
        summary      == BatchErrorSummary(response, parsed_items)
    IN  IF names = << >>
        THEN Result(<< >>,
                 << "No course names provided for suggestion generation (after cleaning)." >>)
        ELSE IF acc.batch = << >>
        THEN Result(SortOutput(acc.output), None)
        ELSE Result(SortOutput(acc.output
                        \o BatchRecords(acc.batch, map, ParsedBatchMap(parsed_items), summary)),
                    summary)

CourseNamesOf(data) == { data[i].identified_course_name : i \in 1..Len(data) }

\* sum(len(item.get('llm_suggestions', [])) for item in data)
RECURSIVE SuggestionCount(_)
SuggestionCount(data) ==
    IF data = << >> THEN 0
    ELSE Len(Head(data).llm_suggestions) + SuggestionCount(Tail(data))

Abs(n) == IF n < 0 THEN 0 - n ELSE n

\* should_store_new_result with every non-empty result stored
should_store_new_result_Always(previous, current) == TRUE

\* should_store_new_result after the comparison with the latest stored result
should_store_new_result(previous, current) ==
    ~ (/\ previous # << >>
       /\ CourseNamesOf(previous) = CourseNamesOf(current)
       /\ Abs(SuggestionCount(previous) - SuggestionCount(current))
              <= Cardinality(CourseNamesOf(current)))

\* the names of the records that tell of a failed lookup
FailedNames(data) ==
    { data[i].identified_course_name :
        i \in { j \in 1..Len(data) : data[j].processed_by = "Cohere (batch failed)" } }

SuggestionsAnswered(user_id, known, previous, batch, current) ==
    /\ endpoint_request' =
           Request(user_id, "suggestions_only", known, "", << >>)
    /\ latest_previous_user_data_list' = previous
    /\ endpoint_llm_batch' = batch
    /\ processing_result_dict' = current
    /\ user_course_processing_collection' =
           IF should_store_new_result(previous, current.user_processed_data)
              /\ current.user_processed_data # << >>
           THEN Append(user_course_processing_collection,
                       StoredResult(user_id, current.user_processed_data,
                                    current.llm_error_summary))
           ELSE user_course_processing_collection
    /\ failed_lookups' =
           failed_lookups \cup { << user_id, c >> : c \in FailedNames(current.user_processed_data) }

ProcessCertificatesSuggestions(user_id, known) ==
    /\ requests_served < MaxRequests
    /\ requests_served' = requests_served + 1
    /\ IF known = {}
       THEN /\ endpoint_request' =
                   Request(user_id, "suggestions_only", known, "", << >>)
            /\ processing_result_dict' =
                   Result(<< >>, << "No course names provided for suggestion generation." >>)
            /\ latest_previous_user_data_list' = << >>
            /\ endpoint_llm_batch' = << >>
            /\ UNCHANGED << user_course_processing_collection, failed_lookups >>
       ELSE \E previous \in { LatestPreviousData(user_course_processing_collection, user_id) } :
            \E batch \in { SuggestionsBatch(known, previous) } :
            \E response \in (IF batch = << >> THEN { NoResponse } ELSE ServiceLLMResponses(batch)) :
            \E current \in { SuggestionsOnly(known, previous, response) } :
                SuggestionsAnswered(user_id, known, previous, batch, current)
    /\ UNCHANGED << manual_course_names_collection, ocr_phase_raw_results, ocr_mode_response >>
    /\ UNCHANGED << suggestion_vars, ocr_vars, parser_vars, filter_vars, page_vars >>

NextSuggestionsService ==
    /\ requests_served < MaxRequests
    /\ \E user_id \in Users, known \in KnownCourseNameLists :
         ProcessCertificatesSuggestions(user_id, known)

SpecSuggestionsService == Init /\ [][NextSuggestionsService]_vars

(***************************************************************************)
(* app.py, /api/manual-course-name and /api/process-certificates in mode   *)
(* 'ocr_only'.  Each handler runs from the request to its answer in one    *)
(* step.  db.images.files holds the files below; every file has its own id. *)
(***************************************************************************)
\* the files of a user, as find({"metadata.userId": user_id}) lists them
images_files(user_id) ==
    IF user_id = "u1"
    THEN << Item("f1", "three_pages.pdf", PDF, Pages(<< NonePage, RegionPage, LlmPage >>)),
            Item("f2", "no_course.pdf", PDF, Pages(<< NoTextPage, LlmErrorPage >>)),
            Item("f3", "broken.pdf", PDF, [ k |-> "Exception", poppler |-> TRUE ]) >>
    ELSE << Item("f4", "untracked.png", PNG, Pages(<< FilteredPage >>)) >>

\* fileId and courseName of a call of /api/manual-course-name; "" is a missing value
ManualFileIds == { "f2", "f3", "f4", "" }

ManualNamePool == { << >>, ADVANCED_DATA_ANALYSIS, << "a", "b" >> }

\* additionalManualCourses of a call in OCR mode
GeneralManualCourses == { << >>, << Python >> }

\* the state of the process the service runs in
ServiceEnvPool == { Env(TRUE, TRUE, TRUE, TRUE), Env(TRUE, FALSE, TRUE, TRUE) }

ManualName(user_id, file_id, course_name) ==
    [ userId |-> user_id, fileId |-> file_id, courseName |-> course_name ]

\* update_one({"userId", "fileId"}, {"$set": {"courseName"}}, upsert=True)
SaveManualCourseName(user_id, file_id, course_name) ==
    /\ requests_served < MaxRequests
    /\ requests_served' = requests_served + 1
    /\ endpoint_request' =
           Request(user_id, "manual_course_name", {}, file_id, course_name)
    /\ manual_course_names_collection' =
           IF file_id = "" \/ course_name = << >>
           THEN manual_course_names_collection
           ELSE { item \in manual_course_names_collection :
                    item.userId # user_id \/ item.fileId # file_id }
                \cup { ManualName(user_id, file_id, course_name) }
    /\ UNCHANGED << user_course_processing_collection, latest_previous_user_data_list,
                    endpoint_llm_batch, processing_result_dict, ocr_phase_raw_results,
                    ocr_mode_response, failed_lookups >>
    /\ UNCHANGED << suggestion_vars, ocr_vars, parser_vars, filter_vars, page_vars >>

\* {item["fileId"]: item["courseName"] for item in find({"userId": user_id})}
StoredManualNamesMap(collection, user_id) ==
    [ file_id \in { item.fileId : item \in { i \in collection : i.userId = user_id } } |->
        (CHOOSE item \in collection :
             item.userId = user_id /\ item.fileId = file_id).courseName ]

\* the stored names of the failed files, in the order of the failed files
StoredNamesOf(failed, stored_manual_names_map) ==
    { stored_manual_names_map[failed[k].file_id] :
        k \in { j \in 1..Len(failed) : failed[j].file_id \in DOMAIN stored_manual_names_map } }

\* ApplyStoredNames with the failed files passed on as they came
ApplyStoredNames_KeepsFailed(raw_results, stored_manual_names_map) ==
    OcrResult(SortedList(Range(raw_results.successfully_extracted_courses)
                         \cup StoredNamesOf(raw_results.failed_extraction_images,
                                            stored_manual_names_map)),
              raw_results.failed_extraction_images,
              raw_results.processed_image_file_ids)

\* lines 224-249: a failed file with a stored name gives that name and is dropped from
\* the failed files
ApplyStoredNames(raw_results, stored_manual_names_map) ==
    OcrResult(SortedList(Range(raw_results.successfully_extracted_courses)
                         \cup StoredNamesOf(raw_results.failed_extraction_images,
                                            stored_manual_names_map)),
              SelectSeq(raw_results.failed_extraction_images,
                        LAMBDA failed_img_info :
                            failed_img_info.file_id \notin DOMAIN stored_manual_names_map),
              raw_results.processed_image_file_ids)

\* extract_and_recommend_courses_from_image_data(mode='ocr_only') from its call to its
\* return
OcrOnly(images, manual, environment) ==
    IF images = << >> /\ manual = << >>
    THEN OcrResult(<< >>, << >>, {})
    ELSE LET results == process_images_for_ocr(images, environment)
         IN  IF manual = << >> THEN results
             ELSE OcrResult(SortedList(Range(results.successfully_extracted_courses)
                                       \cup ManualCourses(manual)),
                            results.failed_extraction_images,
                            results.processed_image_file_ids)

OcrAnswered(user_id, raw_results) ==
    /\ ocr_phase_raw_results' = raw_results
    /\ ocr_mode_response' =
           [ ApplyStoredNames(raw_results,
                              StoredManualNamesMap(manual_course_names_collection, user_id))
               EXCEPT !.processed_image_file_ids =
                          { images_files(user_id)[k].file_id :
                              k \in 1..Len(images_files(user_id)) } ]

ProcessCertificatesOcr(user_id, manual, environment) ==
    /\ requests_served < MaxRequests
    /\ requests_served' = requests_served + 1
    /\ endpoint_request' = Request(user_id, "ocr_only", {}, "", << >>)
    /\ \E raw_results \in { OcrOnly(images_files(user_id), manual, environment) } :
           OcrAnswered(user_id, raw_results)
    /\ UNCHANGED << user_course_processing_collection, manual_course_names_collection,
                    latest_previous_user_data_list, endpoint_llm_batch,
                    processing_result_dict, failed_lookups >>
    /\ UNCHANGED << suggestion_vars, ocr_vars, parser_vars, filter_vars, page_vars >>

NextOcrService ==
    \/ /\ requests_served < MaxRequests
       /\ \E user_id \in Users, file_id \in ManualFileIds, course_name \in ManualNamePool :
            SaveManualCourseName(user_id, file_id, course_name)
    \/ /\ requests_served < MaxRequests
       /\ \E user_id \in Users, manual \in GeneralManualCourses,
             environment \in ServiceEnvPool :
               ProcessCertificatesOcr(user_id, manual, environment)

SpecOcrService == Init /\ [][NextOcrService]_vars

(***************************************************************************)
(* The page AiFeaturePageContent of the front end.  handlePrimaryButtonClick *)
(* is a useCallback closure: a call of it works with the phase and the      *)
(* other state values of the render it was made in.  It runs up to its      *)
(* fetch in one step and from the answer to its end in another one.         *)
(***************************************************************************)
\* requests not yet answered and handlers scheduled, together
MaxPending == 2

\* what the user can type: courses into the text area, a name for the failed image
TypedCourses == { {}, { Go } }

TypedNames == { Python, << " " >> }

\* what the server can answer to an OCR request and to a suggestions request
OcrAnswers ==
    { Answer("ocr_only", FALSE, {}, {}),
      Answer("ocr_only", TRUE, {}, {}),
      Answer("ocr_only", TRUE, { HTML }, {}),
      Answer("ocr_only", TRUE, {}, { "f2" }),
      Answer("ocr_only", TRUE, { HTML }, { "f2" }) }

SuggestionsAnswers ==
    { Answer("suggestions_only", FALSE, {}, {}), Answer("suggestions_only", TRUE, {}, {}) }

\* the state values a render hands to the handler it makes
Closure(render_phase, general, extracted, manual_names) ==
    [ phase |-> render_phase, generalManualCoursesInput |-> general,
      ocrSuccessfullyExtracted |-> extracted, manualNamesForFailedImages |-> manual_names ]

CurrentClosure ==
    Closure(phase, generalManualCoursesInput, ocrSuccessfullyExtracted,
            manualNamesForFailedImages)

Fetch(mode, courses, closure) == [ mode |-> mode, courses |-> courses, closure |-> closure ]

\* Object.values(manualNamesForFailedImages).map(trim).filter(name => name.length > 0)
userProvidedNamesForFailures(manual_names) ==
    { Strip(entry[2]) : entry \in manual_names } \ { << >> }

allKnownCourses(closure) ==
    closure.ocrSuccessfullyExtracted
        \cup userProvidedNamesForFailures(closure.manualNamesForFailedImages)
        \cup closure.generalManualCoursesInput

\* lines 1054-1081 and 1116-1146: the handler from its call to its fetch, or to its
\* return when there are no courses
HandlerStarts(closure) ==
    IF closure.phase \in { "initial", "results" }
    THEN /\ phase' = "initial"
         /\ isLoading' = FALSE
         /\ ocrSuccessfullyExtracted' = {}
         /\ ocrFailedImages' = {}
         /\ manualNamesForFailedImages' = {}
         /\ finalResult' = None
         /\ fetches' = Append(fetches, Fetch("ocr_only", closure.generalManualCoursesInput,
                                             closure))
    ELSE /\ UNCHANGED << ocrSuccessfullyExtracted, ocrFailedImages,
                         manualNamesForFailedImages, finalResult >>
         /\ IF allKnownCourses(closure) = {}
            THEN /\ phase' = "initial"
                 /\ isLoading' = FALSE
                 /\ fetches' = fetches
            ELSE /\ phase' = "processingSuggestions"
                 /\ isLoading' = TRUE
                 /\ fetches' = Append(fetches, Fetch("suggestions_only",
                                                     allKnownCourses(closure), closure))

\* the button is pressed: the handler of the current render is called
Click ==
    /\ ~isLoading
    /\ phase # "processingSuggestions"
    /\ Len(fetches) + Len(timers) < MaxPending
    /\ HandlerStarts(CurrentClosure)
    /\ UNCHANGED << generalManualCoursesInput, timers, last_answer, ocr_succeeded >>
    /\ UNCHANGED << suggestion_vars, ocr_vars, parser_vars, filter_vars, endpoint_vars >>

\* setTimeout(() => handlePrimaryButtonClick(), 0): the handler that scheduled the call
\* is called again
TimerFires ==
    /\ timers # << >>
    /\ timers' = Tail(timers)
    /\ HandlerStarts(Head(timers))
    /\ UNCHANGED << generalManualCoursesInput, last_answer, ocr_succeeded >>
    /\ UNCHANGED << suggestion_vars, ocr_vars, parser_vars, filter_vars, endpoint_vars >>

\* lines 1082-1114: the answer to the OCR request
OcrAnswered_Page(i, answer) ==
    /\ fetches[i].mode = "ocr_only"
    /\ fetches' = SubSeq(fetches, 1, i - 1) \o SubSeq(fetches, i + 1, Len(fetches))
    /\ last_answer' = answer
    /\ isLoading' = FALSE
    /\ ocr_succeeded' = (ocr_succeeded \/ answer.ok)
    /\ IF ~answer.ok
       THEN /\ phase' = "initial"
            /\ UNCHANGED << ocrSuccessfullyExtracted, ocrFailedImages, timers >>
       ELSE /\ ocrSuccessfullyExtracted' = answer.successfully_extracted_courses
            /\ ocrFailedImages' = answer.failed_extraction_images
            /\ IF answer.failed_extraction_images # {}
               THEN phase' = "manualNaming" /\ timers' = timers
               ELSE IF answer.successfully_extracted_courses # {} \/ fetches[i].courses # {}
               THEN phase' = "processingSuggestions"
                    /\ timers' = Append(timers, fetches[i].closure)
               ELSE phase' = "initial" /\ timers' = timers
    /\ UNCHANGED << generalManualCoursesInput, manualNamesForFailedImages, finalResult >>
    /\ UNCHANGED << suggestion_vars, ocr_vars, parser_vars, filter_vars, endpoint_vars >>

\* lines 1147-1171: the answer to the suggestions request
SuggestionsAnswered_Page(i, answer) ==
    /\ fetches[i].mode = "suggestions_only"
    /\ fetches' = SubSeq(fetches, 1, i - 1) \o SubSeq(fetches, i + 1, Len(fetches))
    /\ last_answer' = answer
    /\ isLoading' = FALSE
    /\ IF answer.ok
       THEN phase' = "results" /\ finalResult' = << "data" >>
       ELSE phase' = "initial" /\ finalResult' = finalResult
    /\ UNCHANGED << generalManualCoursesInput, ocrSuccessfullyExtracted, ocrFailedImages,
                    manualNamesForFailedImages, timers, ocr_succeeded >>
    /\ UNCHANGED << suggestion_vars, ocr_vars, parser_vars, filter_vars, endpoint_vars >>

ServerAnswers ==
    \E i \in 1..Len(fetches) :
        \/ \E answer \in OcrAnswers : OcrAnswered_Page(i, answer)
        \/ \E answer \in SuggestionsAnswers : SuggestionsAnswered_Page(i, answer)

\* the text area of the general courses, shown in the phases 'initial' and 'manualNaming'
TypeGeneralCourses(courses) ==
    /\ phase \in { "initial", "manualNaming" }
    /\ ~isLoading
    /\ generalManualCoursesInput # courses
    /\ generalManualCoursesInput' = courses
    /\ UNCHANGED << phase, isLoading, ocrSuccessfullyExtracted, ocrFailedImages,
                    manualNamesForFailedImages, finalResult, fetches, timers, last_answer,
                    ocr_succeeded >>
    /\ UNCHANGED << suggestion_vars, ocr_vars, parser_vars, filter_vars, endpoint_vars >>

\* the input of a failed image, shown in the phase 'manualNaming'
TypeManualName(file_id, name) ==
    /\ phase = "manualNaming"
    /\ ~isLoading
    /\ file_id \in ocrFailedImages
    /\ << file_id, name >> \notin manualNamesForFailedImages
    /\ manualNamesForFailedImages' =
           { entry \in manualNamesForFailedImages : entry[1] # file_id }
               \cup { << file_id, name >> }
    /\ UNCHANGED << phase, isLoading, generalManualCoursesInput, ocrSuccessfullyExtracted,
                    ocrFailedImages, finalResult, fetches, timers, last_answer,
                    ocr_succeeded >>
    /\ UNCHANGED << suggestion_vars, ocr_vars, parser_vars, filter_vars, endpoint_vars >>

NextPage ==
    \/ Click
    \/ TimerFires
    \/ ServerAnswers
    \/ \E courses \in TypedCourses : TypeGeneralCourses(courses)
    \/ \E file_id \in { "f2" }, name \in TypedNames : TypeManualName(file_id, name)

SpecPage == Init /\ [][NextPage]_vars

\* the event loop runs a scheduled handler, and the server answers every request
SpecPageFair == SpecPage /\ WF_vars(TimerFires) /\ WF_vars(ServerAnswers)

(***************************************************************************)
(* What the claims speak of.                                               *)
(***************************************************************************)
\* a suggestion request has returned; the variables hold its inputs and its result
Returned == pc = "idle" /\ round # "none"

RequestedCleaned == Range(cleaned_names_for_llm_query)

Original(cleaned_name) == OriginalName(cleaned_to_original_map, cleaned_name)

CachedNames ==
    { previous_user_data_list[i].identified_course_name : i \in 1..Len(previous_user_data_list) }

Forced(cleaned_name) == cleaned_name \in force_refresh_for_courses

CacheHit(cleaned_name) == ~Forced(cleaned_name) /\ Original(cleaned_name) \in CachedNames

GraphHit(cleaned_name) ==
    ~Forced(cleaned_name) /\ ~CacheHit(cleaned_name) /\ cleaned_name \in DOMAIN course_graph

Batched == Range(courses_to_query_cohere_batch)

\* the positions of the records returned for a name
RecordsFor(name) ==
    { i \in 1..Len(result.user_processed_data) :
        result.user_processed_data[i].identified_course_name = name }

ReturnedRecords == Range(result.user_processed_data)

\* the items the parser found in the answer of this request
ParsedItems ==
    IF cohere_batch_response.kind = "text"
    THEN parse_llm_detailed_suggestions_response(cohere_batch_response.text)
    ELSE << >>

\* the answer holds a block whose echoed name matches the name
Answered(cleaned_name) ==
    \E i \in 1..Len(ParsedItems) :
        NormalizedKey(ParsedItems[i].original_input_course_from_llm) = NormalizedKey(cleaned_name)

(***************************************************************************)
(* The claims.                                                             *)
(***************************************************************************)
\* C1: when a suggestion request has returned, user_processed_data holds exactly as
\* many records as there are cleaned names, and exactly one record for each of them
\* (under the original name the cleaned name stands for), whatever was cached,
\* forced or answered by the LLM.
C1_OneRecordPerName ==
    Returned =>
        /\ Len(result.user_processed_data) = Len(cleaned_names_for_llm_query)
        /\ \A c \in RequestedCleaned : Cardinality(RecordsFor(Original(c))) = 1

\* two names, one from the cache and one whose LLM call returned an error
C1_Witness ==
    /\ Returned
    /\ Len(cleaned_names_for_llm_query) >= 2
    /\ cohere_batch_response.kind = "error"
    /\ \E r \in ReturnedRecords : r.processed_by = "Cache"
    /\ \E r \in ReturnedRecords : r.processed_by = "Cohere (batch failed)"

\* C2: a name that is not forced, whose original name is a key of previous_records
\* and whose cleaned name is a key of course_graph, gets the cached record, tagged
\* "Cache", and not the record of the graph.
C2_CachePrecedence ==
    Returned =>
        \A c \in RequestedCleaned :
            (CacheHit(c) /\ c \in DOMAIN course_graph) =>
                /\ RecordsFor(Original(c)) # {}
                /\ \A i \in RecordsFor(Original(c)) :
                       result.user_processed_data[i]
                           = CachedRecord(CacheMap(previous_user_data_list)[Original(c)])

\* such a name, with a cached record that is not what the graph would give
C2_Witness ==
    /\ Returned
    /\ \E c \in RequestedCleaned :
           /\ CacheHit(c)
           /\ c \in DOMAIN course_graph
           /\ CachedRecord(CacheMap(previous_user_data_list)[Original(c)]).llm_suggestions
                  # course_graph[c].suggested_next_courses

\* C3: a cleaned name in force_refresh is in the LLM batch, cache entry or graph
\* entry or not, and the record returned for it is tagged neither "Cache" nor "Graph".
C3_ForcedRefresh ==
    round # "none" =>
        \A c \in RequestedCleaned :
            Forced(c) =>
                /\ c \in Batched
                /\ \E q \in 1..Len(llm_queries) : c \in Range(llm_queries[q])
                /\ Returned =>
                       /\ RecordsFor(Original(c)) # {}
                       /\ \A i \in RecordsFor(Original(c)) :
                              result.user_processed_data[i].processed_by
                                  \in { "Cohere (batch)", "Cohere (batch failed)" }

\* a forced name that has both a cache entry and a graph entry
C3_Witness ==
    /\ Returned
    /\ \E c \in RequestedCleaned :
           Forced(c) /\ Original(c) \in CachedNames /\ c \in DOMAIN course_graph

\* C4: a name that is not forced and hits the cache or the graph is in no batch
\* handed to the LLM client, and when every name is resolved that way the client
\* is not called and the request returns at once.
C4_LLMOnlyForUnresolved ==
    round # "none" =>
        /\ \A c \in RequestedCleaned :
               (CacheHit(c) \/ GraphHit(c)) =>
                   /\ c \notin Batched
                   /\ \A q \in 1..Len(llm_queries) : c \notin Range(llm_queries[q])
        /\ (\A c \in RequestedCleaned : CacheHit(c) \/ GraphHit(c)) =>
               llm_queries = << >> /\ pc = "idle"

\* two names, one resolved from the cache and one from the graph, and no call
C4_Witness ==
    /\ Returned
    /\ \E c \in RequestedCleaned : CacheHit(c)
    /\ \E c \in RequestedCleaned : GraphHit(c)
    /\ \A c \in RequestedCleaned : CacheHit(c) \/ GraphHit(c)
    /\ llm_queries = << >>

\* C5: in one request the LLM client is called at most once, and the one call
\* carries every name that is forced or resolved neither from cache nor graph.
C5_SingleBatchCall ==
    round # "none" =>
        LET unresolved == { c \in RequestedCleaned : ~CacheHit(c) /\ ~GraphHit(c) }
        IN  /\ Len(llm_queries) <= 1
            /\ unresolved # {} => Len(llm_queries) = 1 /\ Range(llm_queries[1]) = unresolved
            /\ unresolved = {} => llm_queries = << >>

\* one call with a forced name that is cached and a name that misses the cache
C5_Witness ==
    /\ round # "none"
    /\ Len(llm_queries) = 1
    /\ \E c \in Range(llm_queries[1]) : Forced(c) /\ Original(c) \in CachedNames
    /\ \E c \in Range(llm_queries[1]) : ~Forced(c)

\* C6: for every name of the LLM batch: when the parsed answer holds a block whose
\* echoed name matches it, its record is tagged "Cohere (batch)" and has no
\* llm_error; otherwise (no such block, or the call returned an error) its record
\* has no suggestions, an llm_error, and the tag "Cohere (batch failed)".
C6_BatchOutcome ==
    Returned =>
        \A c \in Batched :
            /\ RecordsFor(Original(c)) # {}
            /\ \A i \in RecordsFor(Original(c)) :
                   LET r == result.user_processed_data[i]
                   IN  IF Answered(c)
                       THEN r.processed_by = "Cohere (batch)" /\ r.llm_error = None
                       ELSE /\ r.llm_suggestions = << >>
                            /\ r.llm_error # None
                            /\ r.processed_by = "Cohere (batch failed)"

\* an answer with a block for one name of the batch and none for another
C6_Witness ==
    /\ Returned
    /\ cohere_batch_response.kind = "text"
    /\ \E c \in Batched : Answered(c)
    /\ \E c \in Batched : ~Answered(c)

\* C7 as claimed: the summary of a returned suggestion request is non-null only if
\* the LLM client was called in it and the call failed or no item could be parsed.
C7_Original ==
    Returned =>
        (result.llm_error_summary # None =>
            /\ llm_queries # << >>
            /\ (cohere_batch_response.kind = "error" \/ ParsedItems = << >>))

NoNamesSummary ==
    << "No course names provided for suggestion generation (after cleaning)." >>

\* C7, amended: when at least one name is left after cleaning, the summary is
\* non-null only if the LLM client was called and the call failed or no item
\* could be parsed; when none is left, the request returns the summary "No course
\* names provided ..." without a call.
C7_SummaryOnlyOnBatchFailure ==
    Returned =>
        IF cleaned_names_for_llm_query = << >>
        THEN result.llm_error_summary = NoNamesSummary /\ llm_queries = << >>
        ELSE result.llm_error_summary # None =>
                 /\ llm_queries # << >>
                 /\ (cohere_batch_response.kind = "error" \/ ParsedItems = << >>)

\* an answer with text but no item, and the summary set
C7_Witness ==
    /\ Returned
    /\ cleaned_names_for_llm_query # << >>
    /\ cohere_batch_response.kind = "text"
    /\ cohere_batch_response.text # << >>
    /\ ParsedItems = << >>
    /\ result.llm_error_summary # None

\* C8: user_processed_data is in the order of identified_course_name.lower().
C8_SortedCaseInsensitive ==
    Returned =>
        \A i, j \in 1..Len(result.user_processed_data) :
            i < j => StrLeq(Lower(result.user_processed_data[i].identified_course_name),
                            Lower(result.user_processed_data[j].identified_course_name))

\* a record of the LLM in front of a record of cache or graph whose name is the
\* smaller one when the case counts
C8_Witness ==
    /\ Returned
    /\ \E i, j \in 1..Len(result.user_processed_data) :
           /\ i < j
           /\ result.user_processed_data[i].processed_by
                  \in { "Cohere (batch)", "Cohere (batch failed)" }
           /\ result.user_processed_data[j].processed_by \in { "Cache", "Graph" }
           /\ StrLess(result.user_processed_data[j].identified_course_name,
                      result.user_processed_data[i].identified_course_name)

Untagged(record) == [ record EXCEPT !.processed_by = "" ]

\* C9: when a request is sent again for the same names, with the records it
\* returned as previous records and nothing forced, the LLM client is not called
\* and the same records come back, all tagged "Cache".
C9_IdempotentCaching ==
    (/\ Returned
     /\ round = "repeat"
     /\ force_refresh_for_courses = {}
     /\ last_request.known = known_course_names
     /\ previous_user_data_list = last_request.data) =>
        /\ llm_queries = << >>
        /\ Len(result.user_processed_data) = Len(last_request.data)
        /\ { Untagged(r) : r \in ReturnedRecords }
               = { Untagged(r) : r \in Range(last_request.data) }
        /\ \A r \in ReturnedRecords : r.processed_by = "Cache"

\* the repetition of a request that got one record from the graph and one from a
\* failed LLM call
C9_Witness ==
    /\ Returned
    /\ round = "repeat"
    /\ force_refresh_for_courses = {}
    /\ previous_user_data_list = last_request.data
    /\ \E r \in Range(last_request.data) : r.processed_by = "Graph"
    /\ \E r \in Range(last_request.data) : r.processed_by = "Cohere (batch failed)"

\* C10: a record is reused only for the name it is cached under: a name whose
\* original name is no key of previous_records gets its record from the graph or
\* the LLM, also when the name with or without " [UNVERIFIED]" is a key.
C10_ExactCacheKey ==
    Returned =>
        /\ \A c \in RequestedCleaned :
               Original(c) \notin CachedNames =>
                   /\ RecordsFor(Original(c)) # {}
                   /\ \A i \in RecordsFor(Original(c)) :
                          result.user_processed_data[i].processed_by =
                              IF GraphHit(c) THEN "Graph"
                              ELSE IF Answered(c) THEN "Cohere (batch)"
                              ELSE "Cohere (batch failed)"
        /\ \A r \in ReturnedRecords :
               r.processed_by = "Cache" => r.identified_course_name \in CachedNames

\* "X" asked for with a record cached under "X [UNVERIFIED]", and a name with the
\* marker asked for with a record cached under its cleaned name
C10_Witness ==
    /\ Returned
    /\ \E c \in RequestedCleaned :
           /\ Original(c) \notin CachedNames
           /\ Original(c) \o UNVERIFIED_MARKER \in CachedNames
    /\ \E c \in RequestedCleaned :
           /\ Original(c) \notin CachedNames
           /\ Original(c) # c
           /\ c \in CachedNames

\* the raw names of the request that clean to the name
RawNamesOf(cleaned_name) ==
    { raw_name \in known_course_names : CleanName(raw_name) = cleaned_name }

\* the keys of previous_records that clean to the name
CachedVariants(cleaned_name) == { n \in CachedNames : CleanName(n) = cleaned_name }

\* C25 as claimed: names that differ only by " [UNVERIFIED]" or by the OCR character
\* are one course when requested names are de-duplicated and when a name is looked up
\* in previous_records: one record per cleaned name, and a name that is not forced and
\* has a record cached under any of its variants is served from the cache.
C25_Original ==
    Returned =>
        /\ \A i, j \in 1..Len(cleaned_names_for_llm_query) :
               cleaned_names_for_llm_query[i] = cleaned_names_for_llm_query[j] => i = j
        /\ \A c \in RequestedCleaned :
               ~Forced(c) /\ CachedVariants(c) # {} =>
                   \A i \in RecordsFor(Original(c)) :
                       result.user_processed_data[i].processed_by = "Cache"

\* C25, amended: requested names that differ only by " [UNVERIFIED]" or by the OCR
\* character are one course: every raw name with a non-empty cleaned name is
\* represented by exactly one cleaned name and one record, under the first in sorted
\* order of the raw names that clean to it. The lookup in previous_records compares that raw name by
\* equality: a record is served from the cache iff the name is not forced and that raw
\* name itself is a key.
C25_RequestedNamesMarkerInsensitive ==
    Returned =>
        /\ \A i, j \in 1..Len(cleaned_names_for_llm_query) :
               cleaned_names_for_llm_query[i] = cleaned_names_for_llm_query[j] => i = j
        /\ RequestedCleaned = { CleanName(raw_name) : raw_name \in known_course_names } \ { << >> }
        /\ \A c \in RequestedCleaned :
               /\ Original(c) = Head(SortedList(RawNamesOf(c)))
               /\ Cardinality(RecordsFor(Original(c))) = 1
               /\ \A raw_name \in RawNamesOf(c) \ { Original(c) } : RecordsFor(raw_name) = {}
               /\ \A i \in RecordsFor(Original(c)) :
                      result.user_processed_data[i].processed_by = "Cache"
                          <=> (~Forced(c) /\ Original(c) \in CachedNames)

\* two requested names that differ by the marker only, and the one that stands for
\* them is no key of previous_records while the other one is
C25_Witness ==
    /\ Returned
    /\ \E c \in RequestedCleaned :
           /\ Cardinality(RawNamesOf(c)) = 2
           /\ ~Forced(c)
           /\ Original(c) \notin CachedNames
           /\ CachedVariants(c) # {}
           /\ \E i \in RecordsFor(Original(c)) :
                  result.user_processed_data[i].processed_by # "Cache"

(***************************************************************************)
(* What the claims on an OCR request speak of.                             *)
(***************************************************************************)
OcrDone == ocr_pc = "done"

\* the items the loop has been through
Processed == { k \in 1..Len(image_data_list) : k < item_index }

ItemPages(k) == LoadItem(image_data_list[k], env).pages

LoadFailed(k) == LoadItem(image_data_list[k], env).error \/ ItemPages(k) = <<>>

Invoked(k) == ocr_state.invocations[k]

Yielded(k) == \E j \in 1..Len(Invoked(k)) : Invoked(k)[j].courses # {}

Tracked(k) == image_data_list[k].file_id # NOT_AVAILABLE

\* the entries of failed_extraction_images with the file_id of item k
FailuresOf(k) ==
    { i \in 1..Len(ocr_state.failed_extraction_images) :
        ocr_state.failed_extraction_images[i].file_id = image_data_list[k].file_id }

SharesFileId(k) ==
    \E m \in 1..Len(image_data_list) :
        m # k /\ image_data_list[m].file_id = image_data_list[k].file_id

\* C11: the pages of a document are handed to the orchestrator in page order; once a
\* page yields candidates no later page of the document is handed over, the candidates
\* are accumulated, the step of the document records no failure, and the candidates
\* are in the returned successfully_extracted_courses.
C11_FirstSuccessWins ==
    [][ /\ (ocr_pc = "items" /\ item_index' = item_index + 1) =>
            LET inv == ocr_state'.invocations[item_index]
            IN  /\ \A j \in 1..(Len(inv) - 1) : inv[j].page < inv[j + 1].page
                /\ \A j \in 1..Len(inv) :
                     inv[j].courses # {} =>
                        /\ j = Len(inv)
                        /\ inv[j].courses \subseteq ocr_state'.accumulated_successful_courses
                        /\ ocr_state'.failed_extraction_images = ocr_state.failed_extraction_images
        /\ (ocr_pc = "items" /\ ocr_pc' = "done") =>
            \A k \in Processed : \A j \in 1..Len(Invoked(k)) :
                Invoked(k)[j].courses \subseteq Range(ocr_results'.successfully_extracted_courses)
      ]_vars

\* a three-page document was processed: page 1 was handed over and yielded nothing,
\* page 2 yielded candidates, page 3 was never handed over
C11_Witness ==
    /\ OcrDone
    /\ \E k \in Processed :
         /\ Len(ItemPages(k)) = 3
         /\ Len(Invoked(k)) = 2
         /\ Invoked(k)[1].courses = {}
         /\ Invoked(k)[2].page = 2
         /\ Invoked(k)[2].courses # {}
         /\ FailuresOf(k) = {}

\* the two states of an item: a page of it yielded candidates and no failure has its
\* file_id, or no page yielded candidates and exactly one failure has its file_id
SucceededOrFailedOnce(k) ==
    \/ Yielded(k) /\ FailuresOf(k) = {}
    \/ ~Yielded(k) /\ Cardinality(FailuresOf(k)) = 1

\* C12 as claimed: after process_images_for_ocr every item with a non-sentinel file_id
\* is in exactly one of the two states, on any list of items.
C12_Original ==
    OcrDone => \A k \in Processed : Tracked(k) => SucceededOrFailedOnce(k)

\* C12: after process_images_for_ocr every item with a non-sentinel file_id that no
\* other item of the list shares is in exactly one of the two states.
C12_SucceededOrFailedOnce ==
    OcrDone => \A k \in Processed : (Tracked(k) /\ ~SharesFileId(k)) => SucceededOrFailedOnce(k)

\* a list of two tracked items with different file_ids, one that yielded candidates
\* and one that did not
C12_Witness ==
    /\ OcrDone
    /\ \E k \in Processed, m \in Processed :
         /\ Tracked(k) /\ Tracked(m)
         /\ ~SharesFileId(k) /\ ~SharesFileId(m)
         /\ Yielded(k) /\ FailuresOf(k) = {}
         /\ ~Yielded(m) /\ Cardinality(FailuresOf(m)) = 1

Without(seq, k) == SubSeq(seq, 1, k - 1) \o SubSeq(seq, k + 1, Len(seq))

RECURSIVE RemoveIndices(_, _, _)
RemoveIndices(seq, S, i) ==
    IF i > Len(seq) THEN <<>>
    ELSE (IF i \in S THEN <<>> ELSE << seq[i] >>) \o RemoveIndices(seq, S, i + 1)

\* the run of process_images_for_ocr on the list without item k
RunWithout(k) == ProcessItems(OcrState({}, <<>>, <<>>, <<>>), Without(image_data_list, k), 1, env)

\* the failures recorded for item k with the reason of its loading
LoadFailuresOf(k) ==
    { i \in FailuresOf(k) :
        /\ ocr_state.failed_extraction_images[i].original_filename = image_data_list[k].original_filename
        /\ ocr_state.failed_extraction_images[i].reason = LoadItem(image_data_list[k], env).reason }

\* the results are those of the run without item k, but for the failures in S and the
\* file_id of item k
SameAsWithout(k, S) ==
    /\ ocr_state.accumulated_successful_courses = RunWithout(k).accumulated_successful_courses
    /\ RemoveIndices(ocr_state.failed_extraction_images, S, 1) = RunWithout(k).failed_extraction_images
    /\ Without(ocr_state.invocations, k) = RunWithout(k).invocations
    /\ Range(ocr_state.processed_image_file_ids) \ { image_data_list[k].file_id }
         = Range(RunWithout(k).processed_image_file_ids) \ { image_data_list[k].file_id }

\* C13 as claimed: an item whose loading fails is recorded as one ExtractionFailure
\* with the reason, and the results for all other items are those of the batch without it.
C13_Original ==
    OcrDone => \A k \in Processed :
        LoadFailed(k) => /\ Cardinality(LoadFailuresOf(k)) = 1
                         /\ SameAsWithout(k, LoadFailuresOf(k))

\* C13: an item whose loading fails and whose file_id is the sentinel is recorded
\* nowhere; one whose file_id is not the sentinel and is shared with no other item is
\* recorded as exactly one ExtractionFailure with the reason of the loading; in both
\* cases the results for all other items are those of the batch without the item.
C13_InputErrorIsolation ==
    OcrDone => \A k \in Processed :
        LoadFailed(k) =>
            /\ ~Tracked(k) => (FailuresOf(k) = {} /\ SameAsWithout(k, {}))
            /\ (Tracked(k) /\ ~SharesFileId(k)) =>
                   /\ Cardinality(FailuresOf(k)) = 1
                   /\ LoadFailuresOf(k) = FailuresOf(k)
                   /\ SameAsWithout(k, FailuresOf(k))

\* a batch of a tracked item whose loading failed and of another item that yielded
\* candidates
C13_Witness ==
    /\ OcrDone
    /\ \E k \in Processed, m \in Processed :
         /\ LoadFailed(k) /\ Tracked(k) /\ ~SharesFileId(k)
         /\ Cardinality(LoadFailuresOf(k)) = 1
         /\ Yielded(m)

LastPage(k) == Len(ItemPages(k))

\* the failure reason of the last page of item k: the status returned for it, or the
\* message of line 537 when its mode could not be converted
LastPageReason(k) ==
    IF Invoked(k) # <<>> /\ Invoked(k)[Len(Invoked(k))].page = LastPage(k)
    THEN Invoked(k)[Len(Invoked(k))].status
    ELSE << "Image mode conversion failed for page ", ToString(LastPage(k)), ": ", "the error" >>

\* the failures recorded for item k with the reason of its last page
LastPageFailuresOf(k) ==
    { i \in FailuresOf(k) :
        /\ ocr_state.failed_extraction_images[i].original_filename = image_data_list[k].original_filename
        /\ ocr_state.failed_extraction_images[i].reason = LastPageReason(k) }

NoPageYielded(k) == ~LoadFailed(k) /\ ~Yielded(k)

\* C14 as claimed: when no page of a document yields candidates exactly one
\* ExtractionFailure is recorded for it, with the failure reason of its last page.
C14_Original ==
    OcrDone => \A k \in Processed :
        NoPageYielded(k) => Cardinality(LastPageFailuresOf(k)) = 1

\* C14: when no page of a document yields candidates and its file_id is not the
\* sentinel and is shared with no other item, exactly one ExtractionFailure has its
\* file_id, and that one has its file name and the failure reason of its last page.
C14_LastPageReason ==
    OcrDone => \A k \in Processed :
        (NoPageYielded(k) /\ Tracked(k) /\ ~SharesFileId(k)) =>
            /\ Cardinality(FailuresOf(k)) = 1
            /\ LastPageFailuresOf(k) = FailuresOf(k)

\* a tracked document of two pages handed over, none yielding, whose failure has the
\* status of the second page, which is not the status of the first
C14_Witness ==
    /\ OcrDone
    /\ \E k \in Processed :
         /\ NoPageYielded(k) /\ Tracked(k) /\ ~SharesFileId(k)
         /\ Len(Invoked(k)) = 2
         /\ Invoked(k)[1].status # Invoked(k)[2].status
         /\ Cardinality(LastPageFailuresOf(k)) = 1

(***************************************************************************)
(* Manual course names (lines 698-706).                                    *)
(***************************************************************************)
ManualOnly == OcrDone /\ image_data_list = <<>> /\ additional_manual_courses # <<>>

IsSortedNoDup(seq) == \A a, b \in 1..Len(seq) : a < b => (StrLeq(seq[a], seq[b]) /\ seq[a] # seq[b])

\* the statement with the names returned as given
C15_Original ==
    ManualOnly =>
        /\ ocr_results.successfully_extracted_courses = additional_manual_courses
        /\ ocr_results.failed_extraction_images = <<>>

\* C15: with an empty image list and manual course names the entry point returns, sorted
\* and without duplicates, the candidates that filter_and_verify_course_text yields for
\* each stripped manual name, and an empty failed_extraction_images; for the one name
\* "Advanced Data Analysis" it returns "Advanced Data Analysis [UNVERIFIED]".
C15_ManualNamesFiltered ==
    ManualOnly =>
        /\ Range(ocr_results.successfully_extracted_courses) =
              UNION { filter_and_verify_course_text(Strip(additional_manual_courses[k])) :
                        k \in 1..Len(additional_manual_courses) }
        /\ IsSortedNoDup(ocr_results.successfully_extracted_courses)
        /\ ocr_results.failed_extraction_images = <<>>
        /\ ocr_results.processed_image_file_ids = {}
        /\ additional_manual_courses = << ADVANCED_DATA_ANALYSIS >> =>
              ocr_results.successfully_extracted_courses = << ADVANCED_DATA_ANALYSIS \o UNVERIFIED_MARKER >>

C15_Witness ==
    /\ ManualOnly
    /\ additional_manual_courses = << ADVANCED_DATA_ANALYSIS >>
    /\ ocr_results.successfully_extracted_courses = << ADVANCED_DATA_ANALYSIS \o UNVERIFIED_MARKER >>
    /\ ocr_results.failed_extraction_images = <<>>

(***************************************************************************)
(* The order of the stages of one page, read from the calls it made.       *)
(***************************************************************************)
IsRegionCall(c) == c[1] \in { "detector", "ocr_region" }

IsFullImageCall(c) == c[1] \in { "ocr_full", "llm" }

NoFullImageCall(calls) == \A a \in 1..Len(calls) : ~IsFullImageCall(calls[a])

\* every call of the region stage precedes every call of the full-image stage
RegionCallsFirst(calls) ==
    \A a, b \in 1..Len(calls) : (IsFullImageCall(calls[a]) /\ IsRegionCall(calls[b])) => b < a

\* the boxes of the page whose crop yields candidates, when the region stage can run
YieldingBoxes(page, environment) ==
    IF ~environment.model \/ ~environment.TESSERACT_PATH \/ page.yolo = "error" THEN {}
    ELSE { b \in 1..Len(page.yolo) :
             /\ Lower(page.yolo[b].label) \in REGION_LABELS
             /\ CoursesFromRegion(page.yolo[b]) # {} }

FirstOf(S) == CHOOSE b \in S : \A c \in S : b <= c

\* yielding: the boxes of the page that yield candidates; full: the full-image stage of it
FallbackOrder(inv, page, yielding, full) ==
    /\ RegionCallsFirst(inv.calls)
    /\ (inv.status = << "SUCCESS_YOLO_OCR" >>) = (yielding # {})
    /\ yielding # {} =>
         /\ inv.courses = CoursesFromRegion(page.yolo[FirstOf(yielding)])
         /\ inv.calls[Len(inv.calls)] = << "ocr_region", FirstOf(yielding) >>
         /\ NoFullImageCall(inv.calls)
    /\ yielding = {} =>
         /\ inv.courses = full.courses
         /\ inv.status = full.status
         /\ env.TESSERACT_PATH => << "ocr_full" >> \in Range(inv.calls)

PageOf(k, inv) == ItemPages(k)[inv.page]

\* C16: for every page handed to infer_course_text_from_image_object the calls of the
\* region stage precede those of the full-image stage; when a box of the region stage
\* yields candidates they are returned with SUCCESS_YOLO_OCR after the OCR of that box,
\* with no full-image OCR and no LLM call; otherwise the candidates and the status
\* returned are those of the full-image stage.
C16_FallbackOrder ==
    OcrDone => \A k \in Processed : \A j \in 1..Len(Invoked(k)) :
        FallbackOrder(Invoked(k)[j], PageOf(k, Invoked(k)[j]),
                      YieldingBoxes(PageOf(k, Invoked(k)[j]), env),
                      FullImageStage(PageOf(k, Invoked(k)[j]), env, <<>>))

\* one page returned at once from its region stage, and another page went through a
\* region OCR that yielded nothing and then through full-image OCR and the LLM
C16_Witness ==
    /\ OcrDone
    /\ \E k \in Processed : \E j \in 1..Len(Invoked(k)) :
         /\ Invoked(k)[j].status = << "SUCCESS_YOLO_OCR" >>
         /\ Invoked(k)[j].courses # {}
         /\ NoFullImageCall(Invoked(k)[j].calls)
    /\ \E k \in Processed : \E j \in 1..Len(Invoked(k)) :
         /\ \E a \in 1..Len(Invoked(k)[j].calls) : Invoked(k)[j].calls[a][1] = "ocr_region"
         /\ << "ocr_full" >> \in Range(Invoked(k)[j].calls)
         /\ << "llm" >> \in Range(Invoked(k)[j].calls)

(***************************************************************************)
(* The shape of what the entry point returns.                              *)
(***************************************************************************)
IsList(x) == DOMAIN x = 1..Len(x)

IsName(x) == IsList(x) /\ \A i \in 1..Len(x) : x[i] \in Chars

IsExtractionFailure(f) ==
    /\ DOMAIN f = { "file_id", "original_filename", "reason" }
    /\ f.file_id \in STRING
    /\ f.original_filename \in STRING
    /\ IsList(f.reason) /\ f.reason # <<>>

WellFormedOcrResult(r) ==
    /\ DOMAIN r = { "successfully_extracted_courses", "failed_extraction_images",
                    "processed_image_file_ids" }
    /\ IsList(r.successfully_extracted_courses)
    /\ \A i \in 1..Len(r.successfully_extracted_courses) :
         IsName(r.successfully_extracted_courses[i])
    /\ IsList(r.failed_extraction_images)
    /\ \A i \in 1..Len(r.failed_extraction_images) :
         IsExtractionFailure(r.failed_extraction_images[i])
    /\ IsFiniteSet(r.processed_image_file_ids)
    /\ \A id \in r.processed_image_file_ids : id \in STRING

IsSuggestionRecord(rec) ==
    /\ DOMAIN rec = { "identified_course_name", "description_from_graph", "ai_description",
                      "llm_suggestions", "llm_error", "processed_by" }
    /\ IsName(rec.identified_course_name)
    /\ IsList(rec.llm_suggestions)

WellFormedSuggestionsResult(r) ==
    /\ DOMAIN r = { "user_processed_data", "llm_error_summary" }
    /\ IsList(r.user_processed_data)
    /\ \A i \in 1..Len(r.user_processed_data) : IsSuggestionRecord(r.user_processed_data[i])
    /\ IsList(r.llm_error_summary)

\* C17: in OCR mode the entry point goes through every item of the list, whatever fails,
\* and returns an object with successfully_extracted_courses, failed_extraction_images and
\* processed_image_file_ids; in suggestions mode it returns, whatever the LLM client
\* answers, an object with user_processed_data and llm_error_summary.
C17_WellFormedResult ==
    /\ WellFormedOcrResult(ocr_results)
    /\ WellFormedSuggestionsResult(result)
    /\ OcrDone => item_index = Len(image_data_list) + 1
    /\ (pc = "idle" /\ round # "none") =>
         Len(result.user_processed_data) = Len(cleaned_names_for_llm_query)

\* a batch of two in which a load, the detector and full-image OCR failed: no course,
\* two failures
C17_Witness ==
    /\ OcrDone
    /\ Len(image_data_list) = 2
    /\ ocr_results.successfully_extracted_courses = <<>>
    /\ Len(ocr_results.failed_extraction_images) = 2
    /\ \E k \in Processed : LoadItem(image_data_list[k], env).error
    /\ \E k \in Processed : \E j \in 1..Len(Invoked(k)) :
         /\ PageOf(k, Invoked(k)[j]).yolo = "error"
         /\ PageOf(k, Invoked(k)[j]).full.k = "TesseractError"

(***************************************************************************)
(* The status of a page whose text went, or should have gone, to the LLM.  *)
(***************************************************************************)
\* the full-image stage of the page got a text long enough for the LLM
TextForLlm(inv, page) ==
    /\ << "ocr_full" >> \in Range(inv.calls)
    /\ page.full.k = "text"
    /\ Len(clean_unicode(Strip(page.full.v))) >= 5

\* the LLM client is not configured, or its call raised
LlmFailed(inv, page) ==
    TextForLlm(inv, page) /\ (~env.co \/ page.llm.k # "text")

\* the status of the same page when the LLM is configured and answers [[NONE]]
NoCourseStatus(page) ==
    infer_course_text_from_image_object([ page EXCEPT !.llm = Text(LLM_NONE) ],
                                        [ env EXCEPT !.co = TRUE ]).status

\* C18: the status returned for a page whose LLM call failed, or whose LLM client is
\* not configured, differs from the status returned for the page when the LLM answers
\* that no course is present.
C18_Original ==
    OcrDone => \A k \in Processed : \A j \in 1..Len(Invoked(k)) :
        LlmFailed(Invoked(k)[j], PageOf(k, Invoked(k)[j])) =>
            Invoked(k)[j].status # NoCourseStatus(PageOf(k, Invoked(k)[j]))

(***************************************************************************)
(* The blocks of a text handed to the parser and the records of them.      *)
(***************************************************************************)
\* the lines between the "---" lines of the text
RECURSIVE BlocksOf(_)
BlocksOf(lines) ==
    IF \A i \in 1..Len(lines) : lines[i].k # "sep" THEN << lines >>
    ELSE << SubSeq(lines, 1, MinOf({ i \in 1..Len(lines) : lines[i].k = "sep" }) - 1) >>
         \o BlocksOf(SubSeq(lines, MinOf({ i \in 1..Len(lines) : lines[i].k = "sep" }) + 1, Len(lines)))

HasEchoLine(block) == \E i \in 1..Len(block) : block[i].k = "echo"

\* an echo-name line with a line after it
HasEchoLineBeforeEnd(block) == \E i \in 1..(Len(block) - 1) : block[i].k = "echo"

\* the blocks of the list that S holds, in order
RECURSIVE SelectBlocks(_, _)
SelectBlocks(blocks, S) ==
    IF blocks = << >> THEN << >>
    ELSE (IF Head(blocks) \in S THEN << Head(blocks) >> ELSE << >>) \o SelectBlocks(Tail(blocks), S)

\* the output holds, in order, one record for each block of kept and no other, each the
\* record of its block parsed alone, and is the output for the text of the kept blocks
OneRecordPerBlock(output, blocks, kept) ==
    /\ Len(output) = Len(kept)
    /\ \A i \in 1..Len(kept) :
         /\ << output[i] >> = parse_llm_detailed_suggestions_response(kept[i])
         /\ \E j \in 1..(Len(kept[i]) - 1) :
              /\ kept[i][j].k = "echo"
              /\ output[i].original_input_course_from_llm = Strip(kept[i][j].v)
    /\ kept # << >> => output = parse_llm_detailed_suggestions_response(JoinText(kept))

IsAcceptedSuggestion(sug) ==
    /\ sug.name # << >>
    /\ sug.description # << >>
    /\ sug.url # << >>
    /\ Head(sug.url) \in { "http://", "https://" }

\* C20: every sub-suggestion of every record returned by
\* parse_llm_detailed_suggestions_response has a non-empty name, a non-empty description
\* and a URL that starts with http:// or https://.
C20_Original ==
    \A i \in 1..Len(parsed_results) :
        \A j \in 1..Len(parsed_results[i].llm_suggestions) :
            IsAcceptedSuggestion(parsed_results[i].llm_suggestions[j])

(***************************************************************************)
(* The filter called on a text.                                            *)
(***************************************************************************)
Filtered == text_input # << >>

NonWhitespace(text) == { i \in 1..Len(text) : ~IsSpace(text[i]) }

\* C21: filter_and_verify_course_text returns the empty list for every input that
\* contains fewer than 3 non-whitespace characters.
C21_Original ==
    (Filtered /\ Cardinality(NonWhitespace(text_input)) < 3) => identified_courses = {}

\* the name occurs in the text, in any case, between characters that are not of a word
WholeWordIn(name, text) ==
    \E i \in 1..(Len(text) - Len(name) + 1) :
        /\ Lower(SubSeq(text, i, i + Len(name) - 1)) = Lower(name)
        /\ i = 1 \/ ~IsWordChar(text[i - 1])
        /\ i + Len(name) > Len(text) \/ ~IsWordChar(text[i + Len(name)])

\* C22: every name of possible_courses that occurs in the input as a whole word, in any
\* case, is returned by filter_and_verify_course_text as spelled in the list, without
\* the marker.
C22_Original ==
    Filtered => \A course \in Range(possible_courses) :
        WholeWordIn(course, text_input) => course \in identified_courses

\* at most 7 words, no newline, at least 3 characters
SinglePhrase(text) ==
    /\ Len(SplitWords(text)) <= 7
    /\ \A i \in 1..Len(text) : text[i] # "\n"
    /\ Len(Strip(text)) >= 3

DirectMatch(text) == \E course \in Range(possible_courses) : WholeWordIn(course, text)

\* C23: a single-phrase input that is no direct match of a known course is returned by
\* filter_and_verify_course_text as one unverified candidate: the input, title-cased,
\* with the marker.
C23_Original ==
    (Filtered /\ SinglePhrase(text_input) /\ ~DirectMatch(text_input)) =>
        identified_courses = { Title(Lower(Strip(text_input))) \o UNVERIFIED_MARKER }

\* the places of the candidate where the marker stands, in any case
MarkerPlaces(candidate) ==
    { i \in 1..(Len(candidate) - Len(UNVERIFIED_MARKER) + 1) :
        Upper(SubSeq(candidate, i, i + Len(UNVERIFIED_MARKER) - 1)) = UNVERIFIED_MARKER }

\* C24: filter_and_verify_course_text called on a candidate that it returned returns
\* that candidate and no other, and no candidate it returns carries the marker more
\* than once.
C24_Original ==
    /\ refiltered_from # {} => identified_courses = { text_input }
    /\ \A candidate \in identified_courses : Cardinality(MarkerPlaces(candidate)) <= 1

\* the candidate is a phrase of phrases_to_remove, in any case, with or without the marker
IsBoilerplate(candidate) ==
    \E k \in 1..Len(phrases_to_remove) :
        \/ Lower(candidate) = phrases_to_remove[k]
        \/ Lower(candidate) = phrases_to_remove[k] \o Lower(UNVERIFIED_MARKER)

\* C26: the phrases of phrases_to_remove are stripped before the analysis:
\* filter_and_verify_course_text returns no candidate that consists of one of them.
C26_Original ==
    Filtered => \A candidate \in identified_courses : ~IsBoilerplate(candidate)

(***************************************************************************)
(* The calls of one page: which regions were read, and which stages ran.   *)
(***************************************************************************)
IsRegionOcr(c) == c[1] = "ocr_region"

\* the boxes whose crop was handed to OCR, in the order of the calls
RegionsRead(calls) ==
    [ a \in 1..Len(SelectSeq(calls, IsRegionOcr)) |-> SelectSeq(calls, IsRegionOcr)[a][2] ]

\* the boxes of the page that carry a course label
LabelledBoxes(page) ==
    IF page.yolo = "error" THEN {}
    ELSE { b \in 1..Len(page.yolo) : Lower(page.yolo[b].label) \in REGION_LABELS }

DetectorCalled(calls) == << "detector" >> \in Range(calls)

\* read: the boxes read, in order; labelled, yielding: the boxes of the page with a
\* course label, and those of them that yield candidates
RegionOrder(inv, read, labelled, yielding) ==
    /\ \A a, b \in 1..Len(read) : a < b => read[a] < read[b]
    /\ Range(read) \subseteq labelled
    /\ ~DetectorCalled(inv.calls) => read = << >>
    /\ yielding # {} =>
         /\ Range(read) = { b \in labelled : b <= FirstOf(yielding) }
         /\ inv.status = << "SUCCESS_YOLO_OCR" >>
    /\ (yielding = {} /\ DetectorCalled(inv.calls)) => Range(read) = labelled

\* C27: the region stage reads the detected boxes in the order of the detector; it
\* returns at the first box with a course label whose text filters to candidates, and
\* no box after that one is read; a box with another label is never read; when no box
\* yields candidates every box with a course label is read.
C27_FirstYieldingRegion ==
    OcrDone => \A k \in Processed : \A j \in 1..Len(Invoked(k)) :
        RegionOrder(Invoked(k)[j], RegionsRead(Invoked(k)[j].calls),
                    LabelledBoxes(PageOf(k, Invoked(k)[j])),
                    YieldingBoxes(PageOf(k, Invoked(k)[j]), env))

\* a page with a box of another label before, and a box with a course label after, the
\* first box that yields candidates; and a page with two labelled boxes, none yielding
C27_Witness ==
    /\ OcrDone
    /\ \E k \in Processed : \E j \in 1..Len(Invoked(k)) :
         /\ Invoked(k)[j].status = << "SUCCESS_YOLO_OCR" >>
         /\ RegionsRead(Invoked(k)[j].calls) = << 2 >>
         /\ LabelledBoxes(PageOf(k, Invoked(k)[j])) = { 2, 3 }
    /\ \E k \in Processed : \E j \in 1..Len(Invoked(k)) :
         /\ RegionsRead(Invoked(k)[j].calls) = << 1, 2 >>
         /\ Invoked(k)[j].status # << "SUCCESS_YOLO_OCR" >>

\* the statuses infer_course_text_from_image_object returns with
IsPageStatus(status) ==
    \/ status \in { << "SUCCESS_YOLO_OCR" >>, << "SUCCESS_LLM_EXTRACTION_FROM_FULL_OCR" >>,
                    << "FAILURE_NO_COURSE_IDENTIFIED" >>, << "FAILURE_YOLO_ERROR" >>,
                    << "FAILURE_FULL_IMAGE_OCR_NO_TEXT" >>, << "FAILURE_LLM_OUTPUT_FILTERED_EMPTY" >>,
                    << "FAILURE_LLM_NO_COURSE_IN_TEXT" >>, << "FAILURE_TESSERACT_NOT_FOUND" >> }
    \/ /\ Len(status) = 2
       /\ status[1] \in { "FAILURE_FULL_IMAGE_TESSERACT_ERROR: ", "FAILURE_FULL_IMAGE_OCR_UNKNOWN_ERROR: " }

FullImageRead(calls) == << "ocr_full" >> \in Range(calls)

\* the detector is not loaded, it raised, or no box of the page yields candidates
RegionStageFailed(page, yielding) == ~env.model \/ page.yolo = "error" \/ yielding = {}

\* the call returned a pair of candidates and status, after the OCR of the whole image
\* when the OCR engine is there
Recovered(inv) ==
    /\ IsPageStatus(inv.status)
    /\ inv.status # << "SUCCESS_YOLO_OCR" >>
    /\ env.TESSERACT_PATH => FullImageRead(inv.calls)
    /\ env.TESSERACT_PATH => inv.status \notin { << "FAILURE_YOLO_ERROR" >>, << "FAILURE_TESSERACT_NOT_FOUND" >> }

\* C28: when the detector is not loaded, raises, or finds no box that yields candidates,
\* infer_course_text_from_image_object still returns candidates and a status for the
\* page, and when the OCR engine is available the whole image has been read before it
\* returns.
C28_RegionFailureRecovers ==
    OcrDone => \A k \in Processed : \A j \in 1..Len(Invoked(k)) :
        RegionStageFailed(PageOf(k, Invoked(k)[j]), YieldingBoxes(PageOf(k, Invoked(k)[j]), env))
            => Recovered(Invoked(k)[j])

\* with the detector loaded and the OCR engine there: a page whose detector raised and
\* a page whose labelled boxes were read and yielded nothing, both read as a whole
C28_Witness ==
    /\ OcrDone
    /\ env.model /\ env.TESSERACT_PATH
    /\ \E k \in Processed : \E j \in 1..Len(Invoked(k)) :
         /\ PageOf(k, Invoked(k)[j]).yolo = "error"
         /\ FullImageRead(Invoked(k)[j].calls)
    /\ \E k \in Processed : \E j \in 1..Len(Invoked(k)) :
         /\ RegionsRead(Invoked(k)[j].calls) # << >>
         /\ FullImageRead(Invoked(k)[j].calls)

LlmCalled(calls) == << "llm" >> \in Range(calls)

\* the whole image was read and its text, stripped, is empty or has less than 5 characters
NearEmptyText(inv, page) ==
    /\ FullImageRead(inv.calls)
    /\ page.full.k = "text"
    /\ Len(clean_unicode(Strip(page.full.v))) < 5

\* C29: when the text read from the whole image is empty or shorter than 5 characters
\* the page result is empty with the status FAILURE_FULL_IMAGE_OCR_NO_TEXT and the
\* extraction LLM is not called; that status is returned in no other case.
C29_NoLlmOnNearEmptyText ==
    OcrDone => \A k \in Processed : \A j \in 1..Len(Invoked(k)) :
        /\ NearEmptyText(Invoked(k)[j], PageOf(k, Invoked(k)[j])) =>
             /\ Invoked(k)[j].courses = {}
             /\ Invoked(k)[j].status = << "FAILURE_FULL_IMAGE_OCR_NO_TEXT" >>
             /\ ~LlmCalled(Invoked(k)[j].calls)
        /\ Invoked(k)[j].status = << "FAILURE_FULL_IMAGE_OCR_NO_TEXT" >> =>
             NearEmptyText(Invoked(k)[j], PageOf(k, Invoked(k)[j]))

\* with the LLM client there: a page whose text has 4 characters when stripped, and a
\* page whose text has 5 and went to the LLM
C29_Witness ==
    /\ OcrDone
    /\ env.co
    /\ \E k \in Processed : \E j \in 1..Len(Invoked(k)) :
         /\ NearEmptyText(Invoked(k)[j], PageOf(k, Invoked(k)[j]))
         /\ Len(Strip(PageOf(k, Invoked(k)[j]).full.v)) = 4
    /\ \E k \in Processed : \E j \in 1..Len(Invoked(k)) :
         /\ PageOf(k, Invoked(k)[j]).full.k = "text"
         /\ Len(Strip(PageOf(k, Invoked(k)[j]).full.v)) = 5
         /\ LlmCalled(Invoked(k)[j].calls)

\* C30: when TESSERACT_PATH is not set infer_course_text_from_image_object returns no
\* candidates and the status FAILURE_TESSERACT_NOT_FOUND for every page, and calls
\* neither the detector, nor OCR, nor the extraction LLM; that status is returned in no
\* other case.
C30_NoOcrEngine ==
    OcrDone => \A k \in Processed : \A j \in 1..Len(Invoked(k)) :
        /\ ~env.TESSERACT_PATH =>
             /\ Invoked(k)[j].courses = {}
             /\ Invoked(k)[j].status = << "FAILURE_TESSERACT_NOT_FOUND" >>
             /\ Invoked(k)[j].calls = << >>
        /\ Invoked(k)[j].status = << "FAILURE_TESSERACT_NOT_FOUND" >> => ~env.TESSERACT_PATH

\* without the OCR engine, with the detector and the LLM client there: a page with a
\* labelled box that would yield candidates, and a page whose text would go to the LLM
C30_Witness ==
    /\ OcrDone
    /\ ~env.TESSERACT_PATH /\ env.model /\ env.co
    /\ \E k \in Processed : \E j \in 1..Len(Invoked(k)) :
         /\ LabelledBoxes(PageOf(k, Invoked(k)[j])) # {}
         /\ Invoked(k)[j].status = << "FAILURE_TESSERACT_NOT_FOUND" >>
    /\ \E k \in Processed : \E j \in 1..Len(Invoked(k)) :
         /\ PageOf(k, Invoked(k)[j]).yolo = << >>
         /\ PageOf(k, Invoked(k)[j]).full.k = "text"
         /\ Len(Strip(PageOf(k, Invoked(k)[j]).full.v)) >= 5
         /\ Invoked(k)[j].calls = << >>

(***************************************************************************)
(* What the OCR entry point returns as successfully_extracted_courses.     *)
(***************************************************************************)
\* the pages of item k handed over that gave candidates
SuccessfulPages(k) == { j \in 1..Len(Invoked(k)) : Invoked(k)[j].courses # {} }

\* the candidates of the first successful page of every document
PageCandidates ==
    UNION { UNION { Invoked(k)[j].courses : j \in SuccessfulPages(k) } : k \in Processed }

\* the filter applied to each manual name by itself
ManualCandidates ==
    UNION { filter_and_verify_course_text(Strip(additional_manual_courses[m])) :
              m \in 1..Len(additional_manual_courses) }

\* C31: successfully_extracted_courses of an OCR request is the sorted list, without
\* duplicates, of the candidates of the first successful page of each document and of
\* the candidates filter_and_verify_course_text gives for each manual name; every
\* document has at most one successful page, the last one handed over.
C31_CoursesAreUnionOfPagesAndManual ==
    OcrDone =>
        /\ Range(ocr_results.successfully_extracted_courses) = PageCandidates \cup ManualCandidates
        /\ IsSortedNoDup(ocr_results.successfully_extracted_courses)
        /\ \A k \in Processed : SuccessfulPages(k) \subseteq { Len(Invoked(k)) }

\* a document gave candidates, a manual name gave a candidate that no page gave, and
\* another manual name was rejected by the filter
C31_Witness ==
    /\ OcrDone
    /\ PageCandidates # {}
    /\ ManualCandidates \ PageCandidates # {}
    /\ \E m \in 1..Len(additional_manual_courses) :
         filter_and_verify_course_text(Strip(additional_manual_courses[m])) = {}

(***************************************************************************)
(* The heuristic pass of the filter, read from its input and its result.   *)
(***************************************************************************)
\* the input as the filter analyses it: stripped, without the cent signs
Analysed(text) == Strip(RemoveCent(Strip(text)))

\* the lines of the analysed input, lower-cased, without the boilerplate phrases, stripped
LinesOf(text) ==
    { Strip(SplitLines(RemovePhrases(Lower(text), 1))[i]) :
        i \in 1..Len(SplitLines(RemovePhrases(Lower(text), 1))) }

IsFiller(word) == word \in course_keywords \/ word \in stop_words \/ ~IsAlnum(word)

\* the four conditions on a line and its words
HeuristicLine(line, words) ==
    /\ \E kw \in course_keywords : Contains(line, kw)
    /\ \E i \in 1..Len(words) : ~IsFiller(words[i])
    /\ Len(words) >= 2 /\ Len(words) <= 7
    /\ \E i \in 1..Len(words) : words[i] \notin stop_words /\ Len(words[i]) > 2

IsUnverified(candidate) ==
    /\ Len(candidate) > Len(UNVERIFIED_MARKER)
    /\ SubSeq(candidate, Len(candidate) - Len(UNVERIFIED_MARKER) + 1, Len(candidate)) = UNVERIFIED_MARKER

\* the candidate made of the whole input when it is short
WholeShortInput(text) ==
    IF IsShortInput(text) THEN { Title(Lower(text)) \o UNVERIFIED_MARKER } ELSE {}

\* every unverified candidate but the one of the whole short input is the title-cased
\* line, with the marker, of a line that meets the four conditions
HeuristicPass(text, candidates) ==
    \A candidate \in { c \in candidates : IsUnverified(c) } \ WholeShortInput(text) :
        \E line \in LinesOf(text) :
            /\ candidate = Title(line) \o UNVERIFIED_MARKER
            /\ HeuristicLine(line, SplitWords(line))

\* C32: every unverified candidate filter_and_verify_course_text returns, the one made of
\* the whole short input aside, is the title-cased form with " [UNVERIFIED]" of a line of
\* the input that contains a keyword of course_keywords, is not made up of keywords,
\* stop words and non-alphanumeric tokens only, has 2 to 7 words, and has a word of more
\* than 2 characters that is no stop word.
C32_HeuristicPass ==
    Filtered => HeuristicPass(Analysed(text_input), identified_courses)

\* an input of two lines: one is returned as an unverified candidate, the other, which
\* holds no keyword and no known course, is not
C32_Witness ==
    /\ Filtered
    /\ HasNewline(text_input)
    /\ Title(WEB_DEVELOPER_BOOTCAMP) \o UNVERIFIED_MARKER \in identified_courses
    /\ Lower(ADVANCED_DATA_ANALYSIS) \in LinesOf(Analysed(text_input))
    /\ Cardinality(identified_courses) = 1

\* C33: a name of possible_courses that filter_and_verify_course_text returns without
\* the marker occurs as a whole word in the input, as given or as analysed.
C33_Original ==
    Filtered =>
        \A course \in identified_courses \cap Range(possible_courses) :
            WholeWordIn(course, text_input) \/ WholeWordIn(course, Analysed(text_input))

IsSuccessStatus(status) ==
    status \in { << "SUCCESS_YOLO_OCR" >>, << "SUCCESS_LLM_EXTRACTION_FROM_FULL_OCR" >> }

\* C34: every return of infer_course_text_from_image_object carries candidates if and
\* only if its status is SUCCESS_YOLO_OCR or SUCCESS_LLM_EXTRACTION_FROM_FULL_OCR; every
\* other status it returns is a FAILURE status and comes with no candidates.
C34_CandidatesIffSuccess ==
    \A k \in Processed : \A j \in 1..Len(Invoked(k)) :
        /\ IsPageStatus(Invoked(k)[j].status)
        /\ (Invoked(k)[j].courses # {}) <=> IsSuccessStatus(Invoked(k)[j].status)

\* pages returned with each of the two success statuses, and a page with a failure status
C34_Witness ==
    /\ OcrDone
    /\ \E k \in Processed : \E j \in 1..Len(Invoked(k)) :
         Invoked(k)[j].status = << "SUCCESS_YOLO_OCR" >> /\ Invoked(k)[j].courses # {}
    /\ \E k \in Processed : \E j \in 1..Len(Invoked(k)) :
         /\ Invoked(k)[j].status = << "SUCCESS_LLM_EXTRACTION_FROM_FULL_OCR" >>
         /\ Invoked(k)[j].courses # {}
    /\ \E k \in Processed : \E j \in 1..Len(Invoked(k)) :
         ~IsSuccessStatus(Invoked(k)[j].status) /\ Invoked(k)[j].courses = {}

\* the list holds one entry per file_id at most, and none for the sentinel
OnePerTrackedFile(failed) ==
    /\ \A a, b \in 1..Len(failed) : failed[a].file_id = failed[b].file_id => a = b
    /\ \A a \in 1..Len(failed) : failed[a].file_id # NOT_AVAILABLE

\* the items gone through that have the sentinel file_id
Untracked == { k \in Processed : ~Tracked(k) }

\* C35: failed_extraction_images holds at most one entry per file_id and no entry with
\* the file_id "N/A", in every state of the loop of process_images_for_ocr and in what
\* it returns, also when items share a file_id; "N/A" is no processed file id either,
\* so an item with the sentinel id that fails is in neither collection.
C35_OneFailurePerFile ==
    /\ OnePerTrackedFile(ocr_state.failed_extraction_images)
    /\ NOT_AVAILABLE \notin Range(ocr_state.processed_image_file_ids)
    /\ OcrDone =>
         /\ OnePerTrackedFile(ocr_results.failed_extraction_images)
         /\ NOT_AVAILABLE \notin ocr_results.processed_image_file_ids
         /\ \A a \in 1..Len(ocr_results.failed_extraction_images) :
              \E k \in Processed \ Untracked :
                  /\ image_data_list[k].file_id = ocr_results.failed_extraction_images[a].file_id
                  /\ ~Yielded(k)

\* two items with the same file_id failed both, and one entry stands for them
C35_Witness ==
    /\ OcrDone
    /\ \E k, m \in Processed :
         /\ k # m
         /\ Tracked(k)
         /\ image_data_list[k].file_id = image_data_list[m].file_id
         /\ ~Yielded(k) /\ ~Yielded(m)
         /\ Cardinality(FailuresOf(k)) = 1
    /\ Len(ocr_results.failed_extraction_images) = 1

(***************************************************************************)
(* What the claims on the service speak of.                                *)
(***************************************************************************)
\* the last call asked for suggestions and named a course
SuggestionsServed ==
    endpoint_request.mode = "suggestions_only" /\ endpoint_request.knownCourseNames # {}

\* the cleaned names a request asks for, and the name each one is requested as
CleanedOf(known) == { CleanName(raw_name) : raw_name \in known } \ { << >> }

RequestedAs(known, cleaned_name) ==
    Head(SortedList({ raw_name \in known : CleanName(raw_name) = cleaned_name }))

\* the result stored last for the user when the call arrived, if there is one
StoredOf(collection, user_id) ==
    { i \in 1..Len(collection) : collection[i].userId = user_id }

LatestStored(collection, user_id) ==
    IF StoredOf(collection, user_id) = {} THEN << >>
    ELSE collection[CHOOSE i \in StoredOf(collection, user_id) :
                        \A j \in StoredOf(collection, user_id) : j <= i].user_processed_data

\* the records of a failed lookup that the data holds under the name
FailedRecords(data, name) ==
    { r \in Range(data) : /\ r.identified_course_name = name
                          /\ r.llm_error # None
                          /\ r.llm_suggestions = << >> }

SuggestionsCall ==
    /\ requests_served' # requests_served
    /\ endpoint_request'.mode = "suggestions_only"

\* the result is judged similar to the stored one: the same set of names, and total
\* numbers of suggestions that differ by no more than the number of names
JudgedSimilar(stored, current) ==
    /\ CourseNamesOf(stored) = CourseNamesOf(current)
    /\ SuggestionCount(stored) - SuggestionCount(current) <= Cardinality(CourseNamesOf(current))
    /\ SuggestionCount(current) - SuggestionCount(stored) <= Cardinality(CourseNamesOf(current))

OcrCall ==
    /\ requests_served' # requests_served
    /\ endpoint_request'.mode = "ocr_only"

ManualNameCall ==
    /\ requests_served' # requests_served
    /\ endpoint_request'.mode = "manual_course_name"
    /\ endpoint_request'.fileId # ""
    /\ endpoint_request'.courseName # << >>

\* the names saved for the file of the user
SavedFor(collection, user_id, file_id) ==
    { item.courseName : item \in { i \in collection : i.userId = user_id /\ i.fileId = file_id } }

FailedFileIds(results) ==
    { results.failed_extraction_images[k].file_id :
        k \in 1..Len(results.failed_extraction_images) }

\* C37: a call of /api/manual-course-name with a file and a name leaves that name as
\* the one saved for (userId, fileId), and a saved name is replaced only by a later one
\* for the same user and file.  A call in OCR mode lists no file in
\* failed_extraction_images for which the user has a saved name, and when the processor
\* reported the file as failed its saved name is in successfully_extracted_courses.
C37_SavedNameEndsPrompting ==
    [][ /\ ManualNameCall =>
              SavedFor(manual_course_names_collection', endpoint_request'.userId,
                       endpoint_request'.fileId) = { endpoint_request'.courseName }
        /\ \A item \in manual_course_names_collection :
              SavedFor(manual_course_names_collection', item.userId, item.fileId) # {}
        /\ OcrCall =>
              \A item \in manual_course_names_collection :
                  item.userId = endpoint_request'.userId =>
                      /\ item.fileId \notin FailedFileIds(ocr_mode_response')
                      /\ item.fileId \in FailedFileIds(ocr_phase_raw_results') =>
                             item.courseName
                                 \in Range(ocr_mode_response'.successfully_extracted_courses)
      ]_vars

\* an OCR call of a user with two files that the processor reported as failed: a name
\* is saved for one of them, which is answered as a course and not listed, the other
\* one is listed; the other user has saved a name for the listed file
C37_Witness ==
    /\ endpoint_request.mode = "ocr_only"
    /\ \E item \in manual_course_names_collection :
         /\ item.userId = endpoint_request.userId
         /\ item.fileId \in FailedFileIds(ocr_phase_raw_results)
         /\ item.fileId \notin FailedFileIds(ocr_mode_response)
         /\ item.courseName \in Range(ocr_mode_response.successfully_extracted_courses)
         /\ item.courseName \notin Range(ocr_phase_raw_results.successfully_extracted_courses)
    /\ \E file_id \in FailedFileIds(ocr_mode_response) :
         /\ SavedFor(manual_course_names_collection, endpoint_request.userId, file_id) = {}
         /\ \E other \in Users \ { endpoint_request.userId } :
              SavedFor(manual_course_names_collection, other, file_id) # {}

(***************************************************************************)
(* What the claims on the page speak of.                                   *)
(***************************************************************************)
\* a step that sends a request of the mode
Sends(mode) ==
    /\ Len(fetches') = Len(fetches) + 1
    /\ fetches'[Len(fetches')].mode = mode

\* the OCR request was answered without failed images and with a course, and the
\* handler is scheduled to run again
AutoTriggered ==
    /\ phase = "processingSuggestions"
    /\ timers # << >>
    /\ last_answer.mode = "ocr_only"
    /\ last_answer.ok
    /\ last_answer.failed_extraction_images = {}
    /\ last_answer.successfully_extracted_courses # {}

\* a suggestions request is sent only after an OCR request of the page was answered well
SuggestionsAfterOcr == [][ Sends("suggestions_only") => ocr_succeeded ]_vars

\* the phase 'manualNaming' is entered only by an OCR answer that reports a failed image
ManualNamingAfterFailure ==
    [][ phase' = "manualNaming" /\ phase # "manualNaming" =>
            /\ last_answer'.mode = "ocr_only"
            /\ last_answer'.ok
            /\ last_answer'.failed_extraction_images # {}
            /\ Len(fetches') < Len(fetches)
      ]_vars

\* the handler that runs from the timer sends the suggestions request
RetriggeredHandlerSendsSuggestions ==
    [][ Len(timers') < Len(timers) => Sends("suggestions_only") ]_vars

\* once the handler is scheduled again the phase becomes 'results', unless the server
\* answers with an error
AutoTriggerReachesResults ==
    AutoTriggered ~> (phase = "results" \/ ~last_answer.ok)

\* C39 as claimed: a suggestions_only request is sent only after an OCR request of the
\* page has succeeded; 'manualNaming' is entered only when OCR reported a failed image;
\* and when OCR reports no failed image but a course, the handler that is triggered
\* again sends the suggestions request, so that the phase eventually becomes 'results'
\* if the server answers successfully.
C39_Original ==
    /\ SuggestionsAfterOcr
    /\ ManualNamingAfterFailure
    /\ RetriggeredHandlerSendsSuggestions
    /\ AutoTriggerReachesResults

====
